---- MODULE Spec2Model ----
(***************************************************************************)
(* ITAssetManager: the JWT session layer (server/auth), the REST routes    *)
(* (server/routes) and the Zod schemas (shared/schema), as a state machine *)
(* over the tenant store, the browser's identity cookie and the last       *)
(* request/response pair.                                                  *)
(*                                                                         *)
(* Conventions.  A JavaScript string is a sequence of one-character        *)
(* strings when its characters matter (tax ids, passwords, emails).  An    *)
(* optional value (undefined / missing property) is <<>> when absent and   *)
(* <<v>> when present.  Time is counted in days.                           *)
(***************************************************************************)
EXTENDS Integers, Sequences, FiniteSets, Bags, TLC

VARIABLES
    users,          \* table users: set of User rows
    companies,      \* table companies: set of Company rows
    userCompanies,  \* table user_companies: set of membership rows
    assets,         \* table assets
    contracts,      \* table contracts
    licenses,       \* table licenses
    maintenance,    \* table maintenance_records
    activityLog,    \* table activity_log, in insertion order
    nextAssetId,    \* ids are never reused (UUIDs); assets can be deleted
    inflight,       \* bag of register requests parsed, awaiting storage.registerCompany
    cookie,         \* the browser's "jwt" cookie: <<>> or <<token>>
    now,            \* wall clock, in days
    req,            \* the last request handled
    resp            \* the response to it

store == <<users, companies, userCompanies, assets, contracts, licenses,
           maintenance, activityLog, nextAssetId>>
vars == <<users, companies, userCompanies, assets, contracts, licenses,
          maintenance, activityLog, nextAssetId, inflight, cookie, now, req, resp>>

----------------------------------------------------------------------------
(* Bounds of the model *)

MaxAssets == 1      \* assets ever created
MaxLog == 2         \* rows of activity_log
MaxNow == 7         \* last tick the clock reaches (days; ms in SpecExpiry)
MaxInflight == 2    \* register requests awaiting the store at once
MaxCostRows == 3    \* asset rows with costs in the store
MaxPwLen == 3       \* longest plaintext handed to passwordUtils

----------------------------------------------------------------------------
(* Strings *)

Rep(c, n) == [i \in 1..n |-> c]

Digits == {"0", "1", "2", "3", "4", "5", "6", "7", "8", "9"}

\* /^\d{n}$/.test(val)
AllDigits(val, n) == Len(val) = n /\ \A i \in 1..Len(val) : val[i] \in Digits

Some(v) == <<v>>
None == <<>>
Present(o) == o # <<>>
Get(o) == o[1]

\* JavaScript truthiness of an optional string: undefined and "" are falsy
Truthy(o) == Present(o) /\ Get(o) # <<>>

----------------------------------------------------------------------------
(* server/auth: passwordUtils *)

\* a digest that keeps the length of the password only
LengthDigest(password) == <<"sha256", Len(password)>>

\* crypto.createHash("sha256").update(password).digest("hex"): SHA-256 is taken
\* as collision free, its digest is the tagged preimage
Sha256Hex(password) == <<"sha256", password>>

hash(password) == Sha256Hex(password)

verify(password, digest) == Sha256Hex(password) = digest

----------------------------------------------------------------------------
(* server/auth: jwtUtils.  A token is its payload and its HS256 signature;  *)
(* jwt.sign adds iat and exp to the payload.                                *)

TOKEN_DAYS == 7

jwtSecret == "dev-secret-change-in-production"

\* HMAC-SHA256 over the encoded payload, taken as unforgeable: the tagged pair
HS256(payload, secret) == <<"HS256", secret, payload>>

\* A claims object handed to generateToken: ids are positive, 0 is undefined
Claims(userId, id, email, firstName, lastName, role, supportMode) ==
    [userId |-> userId, id |-> id, email |-> email, firstName |-> firstName,
     lastName |-> lastName, role |-> role, supportMode |-> supportMode]

\* a signer whose tokens all end TOKEN_DAYS after day 0, whenever they are signed
generateTokenFromDayZero(payload, t) ==
    LET finalPayload == [userId |-> IF payload.userId # 0 THEN payload.userId
                                    ELSE payload.id,
                         email |-> payload.email,
                         firstName |-> payload.firstName,
                         lastName |-> payload.lastName,
                         role |-> payload.role,
                         supportMode |-> payload.supportMode,
                         iat |-> t,
                         exp |-> TOKEN_DAYS]
    IN [payload |-> finalPayload, sig |-> HS256(finalPayload, jwtSecret)]

\* a generateToken whose tokens live a day longer
generateTokenExtraDay(payload, t) ==
    LET finalPayload == [userId |-> IF payload.userId # 0 THEN payload.userId
                                    ELSE payload.id,
                         email |-> payload.email,
                         firstName |-> payload.firstName,
                         lastName |-> payload.lastName,
                         role |-> payload.role,
                         supportMode |-> payload.supportMode,
                         iat |-> t,
                         exp |-> t + TOKEN_DAYS + 1]
    IN [payload |-> finalPayload, sig |-> HS256(finalPayload, jwtSecret)]

\* a generateToken that copies the identity fields only and drops supportMode
generateTokenIdentityOnly(payload, t) ==
    LET finalPayload == [userId |-> IF payload.userId # 0 THEN payload.userId
                                    ELSE payload.id,
                         email |-> payload.email,
                         firstName |-> payload.firstName,
                         lastName |-> payload.lastName,
                         role |-> payload.role,
                         supportMode |-> None,
                         iat |-> t,
                         exp |-> t + TOKEN_DAYS]
    IN [payload |-> finalPayload, sig |-> HS256(finalPayload, jwtSecret)]

\* generateToken(payload) at time t.  userId is payload.userId || payload.id;
\* supportMode is copied when truthy; no other field of the payload (an old
\* token's iat and exp among them) is copied; jwt.sign stamps iat and exp.
generateToken(payload, t) ==
    LET finalPayload == [userId |-> IF payload.userId # 0 THEN payload.userId
                                    ELSE payload.id,
                         email |-> payload.email,
                         firstName |-> payload.firstName,
                         lastName |-> payload.lastName,
                         role |-> payload.role,
                         supportMode |-> payload.supportMode,
                         iat |-> t,
                         exp |-> t + TOKEN_DAYS]
    IN [payload |-> finalPayload, sig |-> HS256(finalPayload, jwtSecret)]

\* a verification that never looks at the signature
jwtVerifyOkUnsigned(token, t) == t < token.payload.exp

\* jwt.verify(token, secret) at time t: the signature must be the secret's over
\* this payload, and the token must not have reached exp
jwtVerifyOk(token, t) ==
    /\ token.sig = HS256(token.payload, jwtSecret)
    /\ t < token.payload.exp

\* verifyToken: the payload, or null (<<>>)
verifyToken(token, t) == IF jwtVerifyOk(token, t) THEN Some(token.payload) ELSE None

\* a middleware that decodes the cookie without verifying it
AttachUserUnverified(jar, t) == IF Present(jar) THEN Some(Get(jar).payload) ELSE None

\* setupAuth's middleware: req.user from req.cookies.jwt
AttachUser(jar, t) ==
    IF Present(jar) /\ jwtVerifyOk(Get(jar), t) THEN Some(Get(jar).payload) ELSE None

\* an isAuthenticated that turns a cookie down once a logout was answered
isAuthenticatedUntilLogout(jar, t) ==
    LET u == AttachUser(jar, t) IN Present(u) /\ Get(u).userId # 0 /\ req.op # "logout"

\* isAuthenticated: req.user && req.user.userId
isAuthenticated(jar, t) ==
    LET u == AttachUser(jar, t) IN Present(u) /\ Get(u).userId # 0

----------------------------------------------------------------------------
(* Inputs: the strings requests are built from *)

Email(c) == <<c, "@", "x", ".", "e", "c">>
EmailRoot == Email("r")
EmailA == Email("a")
EmailB == Email("b")
EmailUnknown == Email("z")
EmailBad == <<"a", "x", ".", "e", "c">>

PwGood == <<"s", "e", "c", "r", "e", "t">>
PwOther == <<"s", "e", "c", "r", "e", "T">>
PwShort == <<"s", "e", "c">>

RucA == Rep("1", 13)
Ruc12 == Rep("1", 12)
CedK == Rep("2", 10)
Ced9 == Rep("2", 9)

Roles == {"super_admin", "technical_admin", "manager_owner"}
Plans == {"pyme", "professional"}

----------------------------------------------------------------------------
(* shared/schema: the Zod schemas the routes parse with *)

\* z.string().email(): one "@" after a non-empty local part, and a domain with
\* an inner "."
IsEmail(e) ==
    \E i \in 2..Len(e) :
        /\ e[i] = "@"
        /\ \A j \in 1..Len(e) : e[j] = "@" => j = i
        /\ \E k \in (i + 2)..(Len(e) - 1) : e[k] = "."

\* z.string().min(n) on a required property
MinString(o, n) == Present(o) /\ Len(Get(o)) >= n

\* loginSchema.parse(body) does not throw
loginSchemaOk(body) ==
    /\ MinString(body.email, 0) /\ IsEmail(Get(body.email))
    /\ MinString(body.password, 1)

\* companyRegistrationSchema.parse(body) does not throw.  ruc and cedula are
\* optional and refined with (!val || /^\d{13}$/.test(val)): an absent or empty
\* value passes whatever the plan
companyRegistrationSchemaOk(body) ==
    /\ MinString(body.name, 1)
    /\ Present(body.plan) /\ Get(body.plan) \in Plans
    /\ (~Truthy(body.ruc) \/ AllDigits(Get(body.ruc), 13))
    /\ (~Truthy(body.cedula) \/ AllDigits(Get(body.cedula), 10))
    /\ MinString(body.address, 1)
    /\ MinString(body.phone, 1)
    /\ MinString(body.email, 0) /\ IsEmail(Get(body.email))
    /\ MinString(body.firstName, 1)
    /\ MinString(body.lastName, 1)
    /\ MinString(body.password, 6)
    /\ Present(body.confirmPassword)
    /\ Get(body.password) = Get(body.confirmPassword)

----------------------------------------------------------------------------
(* Requests and responses *)

NoBody == [none |-> TRUE]

\* A request to a route behind isAuthenticated: the route, the "jwt" cookie it
\* carries, req.user as the JWT middleware attached it, the path parameters (0
\* when the route has none) and the body
Request(op, companyId, id, body) ==
    [op |-> op, jar |-> cookie, user |-> AttachUser(cookie, now),
     companyId |-> companyId, id |-> id, body |-> body]

\* A request to a public route, whose handler reads neither the cookie nor
\* req.user
PublicRequest(op, body) ==
    [op |-> op, jar |-> None, user |-> None, companyId |-> 0, id |-> 0, body |-> body]

\* res.status(status).json({message, ...}); errors: the body lists field-level
\* messages; company, user, rows: the data of the body; setCookie/clearCookie:
\* what the response does to the "jwt" cookie
Response(op, status, message) ==
    [op |-> op, status |-> status, message |-> message, errors |-> FALSE,
     company |-> None, user |-> None, rows |-> {},
     setCookie |-> None, clearCookie |-> FALSE]

Idle == Response("none", 0, "")
IdleRequest == PublicRequest("none", NoBody)

\* a jar that every response without a new token empties
CookieAfterEmptying(r) == r.setCookie

\* what the browser's cookie jar holds after a response
CookieAfter(r) ==
    IF Present(r.setCookie) THEN r.setCookie
    ELSE IF r.clearCookie THEN None
    ELSE cookie

----------------------------------------------------------------------------
(* server/storage (not in the sources: modelled from its callers and the   *)
(* design document)                                                        *)

getUserByEmail(email) == {u \in users : u.email = email}

getUser(userId) == {u \in users : u.id = userId}

getCompanyById(companyId) == {c \in companies : c.id = companyId}

\* unique constraints of the companies table (SQL: NULLs never collide)
UniqueViolation(data) ==
    \E c \in companies :
        \/ Truthy(data.ruc) /\ c.ruc = data.ruc
        \/ Truthy(data.cedula) /\ c.cedula = data.cedula

\* registerCompany's outcome: the Error it throws, or "ok"
registerCompanyOutcome(data) ==
    IF getUserByEmail(Get(data.email)) # {} THEN "El email ya esta registrado"
    ELSE IF UniqueViolation(data) THEN "23505"
    ELSE "ok"

NewCompany(data) ==
    [id |-> Cardinality(companies) + 1, name |-> Get(data.name),
     plan |-> Get(data.plan), ruc |-> data.ruc, cedula |-> data.cedula,
     isActive |-> TRUE]

NewUser(data, passwordHash) ==
    [id |-> Cardinality(users) + 1, email |-> Get(data.email),
     passwordHash |-> passwordHash, firstName |-> Get(data.firstName),
     lastName |-> Get(data.lastName), role |-> "manager_owner"]

\* registerCompany: one transaction that inserts the company, the user and the
\* membership, or nothing
registerCompany(data, passwordHash) ==
    IF registerCompanyOutcome(data) = "ok"
    THEN /\ companies' = companies \cup {NewCompany(data)}
         /\ users' = users \cup {NewUser(data, passwordHash)}
         /\ userCompanies' = userCompanies \cup
                {[userId |-> Cardinality(users) + 1,
                  companyId |-> Cardinality(companies) + 1,
                  role |-> "manager_owner"]}
    ELSE UNCHANGED <<companies, users, userCompanies>>

----------------------------------------------------------------------------
(* server/routes: the public routes *)

UserView(u) ==
    [id |-> u.id, email |-> u.email, firstName |-> u.firstName,
     lastName |-> u.lastName, role |-> u.role]

\* the token login and register issue for a stored user: {id, email, ...}
LoginToken(u) ==
    generateToken(Claims(0, u.id, u.email, u.firstName, u.lastName, u.role, None), now)

\* The Error objects POST /api/register can catch
ZodError == [message |-> "ZodError", code |-> ""]
EmailTakenError == [message |-> "El email ya esta registrado", code |-> ""]
PgUniqueError == [message |-> "duplicate key value violates unique constraint",
                  code |-> "23505"]

DuplicateMessage == "Ya existe una empresa con este RUC/Cedula o email"

\* the catch block without its branch for the store's "email taken" Error
RegisterCatchWithoutEmailBranch(error) ==
    IF error.code = "23505"
    THEN Response("register", 400, DuplicateMessage)
    ELSE Response("register", 500, "Error al registrar empresa")

\* POST /api/register, the catch block
RegisterCatch(error) ==
    IF error.message = "El email ya esta registrado"
    THEN Response("register", 400, error.message)
    ELSE IF error.code = "23505"
    THEN Response("register", 400, DuplicateMessage)
    ELSE Response("register", 500, "Error al registrar empresa")

\* POST /api/register up to its first await: the body is parsed and the password
\* hashed.  A body the schema rejects is answered from the catch block; the
\* others wait for the store.
RegisterReceive(body) ==
    IF companyRegistrationSchemaOk(body)
    THEN /\ BagCardinality(inflight) < MaxInflight
         /\ inflight' = inflight (+) SetToBag(
                {[body |-> body, passwordHash |-> hash(Get(body.password))]})
         /\ UNCHANGED <<store, cookie, now, req, resp>>
    ELSE /\ req' = PublicRequest("register", body)
         /\ resp' = RegisterCatch(ZodError)
         /\ UNCHANGED <<store, inflight, cookie, now>>

\* POST /api/register from storage.registerCompany on: the transaction, then the
\* token, the cookie and the response, or the catch block
RegisterComplete(d) ==
    LET outcome == registerCompanyOutcome(d.body)
        user == NewUser(d.body, d.passwordHash)
        r == IF outcome = "ok"
             THEN [Response("register", 200, "Empresa registrada exitosamente")
                     EXCEPT !.company = Some(NewCompany(d.body)),
                            !.user = Some(UserView(user)),
                            !.setCookie = Some(LoginToken(user))]
             ELSE IF outcome = "23505" THEN RegisterCatch(PgUniqueError)
             ELSE RegisterCatch(EmailTakenError)
    IN /\ registerCompany(d.body, d.passwordHash)
       /\ inflight' = inflight (-) SetToBag({d})
       /\ req' = PublicRequest("register", d.body)
       /\ resp' = r
       /\ cookie' = CookieAfter(r)
       /\ UNCHANGED <<assets, contracts, licenses, maintenance, activityLog,
                      nextAssetId, now>>

InvalidCredentials == "Email o contrasena incorrectos"

\* a login that tells an unknown email from a wrong password
LoginResponseNamingUnknownEmail(body) ==
    IF ~loginSchemaOk(body)
    THEN Response("login", 500, "Error al iniciar sesion")
    ELSE LET found == getUserByEmail(Get(body.email)) IN
         IF found = {}
         THEN Response("login", 401, "Usuario no encontrado")
         ELSE LET user == CHOOSE u \in found : TRUE IN
              IF ~verify(Get(body.password), user.passwordHash)
              THEN Response("login", 401, InvalidCredentials)
              ELSE [Response("login", 200, "Login exitoso")
                      EXCEPT !.user = Some(UserView(user)),
                             !.setCookie = Some(LoginToken(user))]

\* POST /api/login: the response
LoginResponse(body) ==
    IF ~loginSchemaOk(body)
    THEN Response("login", 500, "Error al iniciar sesion")
    ELSE LET found == getUserByEmail(Get(body.email)) IN
         IF found = {}
         THEN Response("login", 401, InvalidCredentials)
         ELSE LET user == CHOOSE u \in found : TRUE IN
              IF ~verify(Get(body.password), user.passwordHash)
              THEN Response("login", 401, InvalidCredentials)
              ELSE [Response("login", 200, "Login exitoso")
                      EXCEPT !.user = Some(UserView(user)),
                             !.setCookie = Some(LoginToken(user))]

Login(body) ==
    LET r == LoginResponse(body) IN
    /\ req' = PublicRequest("login", body)
    /\ resp' = r
    /\ cookie' = CookieAfter(r)
    /\ UNCHANGED <<store, inflight, now>>

\* POST /api/logout; the request is recorded with the cookie it came with
Logout ==
    LET r == [Response("logout", 200, "Sesion cerrada exitosamente")
                EXCEPT !.clearCookie = TRUE] IN
    /\ req' = [PublicRequest("logout", NoBody) EXCEPT !.jar = cookie]
    /\ resp' = r
    /\ cookie' = CookieAfter(r)
    /\ UNCHANGED <<store, inflight, now>>

----------------------------------------------------------------------------
(* server/storage, the tenant tables (modelled as above) *)

CompanyIds == {c.id : c \in companies}

getUserCompanies(userId) == {m \in userCompanies : m.userId = userId}

\* the company of the membership added last
LastCompanyId(userId) ==
    CHOOSE c \in {m.companyId : m \in getUserCompanies(userId)} :
        \A m \in getUserCompanies(userId) : c >= m.companyId

\* userCompanies[0].companyId: memberships come back in insertion order
FirstCompanyId(userId) ==
    CHOOSE c \in {m.companyId : m \in getUserCompanies(userId)} :
        \A m \in getUserCompanies(userId) : c <= m.companyId

getAssetsByCompany(companyId) == {a \in assets : a.companyId = companyId}
getContractsByCompany(companyId) == {c \in contracts : c.companyId = companyId}
getLicensesByCompany(companyId) == {l \in licenses : l.companyId = companyId}
getMaintenanceRecordsByCompany(companyId) ==
    {m \in maintenance : m.companyId = companyId}
getRecentActivity(companyId) ==
    {activityLog[i] : i \in {j \in 1..Len(activityLog) :
                                activityLog[j].companyId = companyId}}
getAssetById(id, companyId) == {a \in assets : a.id = id /\ a.companyId = companyId}

\* getCompanyCostSummary and getAssetCounts: figures over the company's rows
DashboardSummary(companyId) ==
    [totalAssets |-> Cardinality(getAssetsByCompany(companyId)),
     contracts |-> Cardinality(getContractsByCompany(companyId)),
     licenses |-> Cardinality(getLicensesByCompany(companyId)),
     maintenance |-> Cardinality(getMaintenanceRecordsByCompany(companyId))]

\* an audit row that records every action as an update
LogEntryAsUpdated(companyId, userId, action, entityType, entityId, entityName) ==
    [companyId |-> companyId, userId |-> userId, action |-> "updated",
     entityType |-> entityType, entityId |-> entityId, entityName |-> entityName]

\* logActivity appends one row
LogEntry(companyId, userId, action, entityType, entityId, entityName) ==
    [companyId |-> companyId, userId |-> userId, action |-> action,
     entityType |-> entityType, entityId |-> entityId, entityName |-> entityName]

\* a logActivity that keeps the latest row only
logActivityLatestOnly(entry) ==
    /\ Len(activityLog) < MaxLog
    /\ activityLog' = <<entry>>

logActivity(entry) ==
    /\ Len(activityLog) < MaxLog
    /\ activityLog' = Append(activityLog, entry)

\* the row with the monthlyCost of the data, when the data carries one
WithMonthlyCost(row, data) ==
    IF "monthlyCost" \notin DOMAIN data THEN row
    ELSE IF ~Present(data.monthlyCost) THEN row
    ELSE [monthlyCost |-> Get(data.monthlyCost)] @@ row

\* updateAsset(id, data): the row with the fields data carries overwritten
UpdatedAsset(a, data) ==
    WithMonthlyCost(
        [a EXCEPT !.companyId = IF Present(data.companyId) THEN Get(data.companyId) ELSE @,
                  !.name = IF Present(data.name) THEN Get(data.name) ELSE @,
                  !.type = IF Present(data.type) THEN Get(data.type) ELSE @],
        data)

----------------------------------------------------------------------------
(* shared/schema: the tenant schemas.  An id is a z.string(); the model's   *)
(* ids are numbers, so a present id always has the right type.              *)

AssetTypes == {"physical", "application", "license", "contract"}

\* z.number().optional() on a property: absent, or any number
ZNumberOptional(body, property) ==
    IF property \notin DOMAIN body THEN TRUE
    ELSE IF ~Present(body[property]) THEN TRUE
    ELSE Get(body[property]) \in Int

\* insertAssetSchema.parse(body); partial: insertAssetSchema.partial()
insertAssetSchemaOk(body, partial) ==
    /\ partial \/ Present(body.companyId)
    /\ IF Present(body.name) THEN Len(Get(body.name)) >= 1 ELSE partial
    /\ IF Present(body.type) THEN Get(body.type) \in AssetTypes ELSE partial
    /\ ZNumberOptional(body, "monthlyCost")

\* A value of a parsed JSON body, with its JavaScript type: JSON has no dates
JsonString(chars) == [kind |-> "string", value |-> chars]

\* z.date() on a required property: the value is a Date instance
ZDate(o) == Present(o) /\ Get(o).kind = "date"

\* insertContractSchema: companyId, name (min 1), vendor (min 1), startDate and
\* endDate are required; contractType is taken as given with the vendor
insertContractSchemaOk(body) ==
    /\ Present(body.companyId)
    /\ MinString(body.name, 1)
    /\ MinString(body.vendor, 1)
    /\ ZDate(body.startDate)
    /\ ZDate(body.endDate)

\* insertLicenseSchema: companyId, name (min 1) and vendor (min 1) are required

insertLicenseSchemaOk(body) ==
    /\ Present(body.companyId)
    /\ MinString(body.name, 1)
    /\ MinString(body.vendor, 1)

\* insertMaintenanceRecordSchema: assetId, companyId, title (min 1) and
\* description (min 1); maintenanceType is taken as given with the title
insertMaintenanceRecordSchemaOk(body) ==
    /\ Present(body.assetId)
    /\ Present(body.companyId)
    /\ MinString(body.title, 1)
    /\ MinString(body.description, 1)

----------------------------------------------------------------------------
(* server/routes: the routes behind isAuthenticated *)

\* isAuthenticated's refusal
Unauthorized(op) == Response(op, 401, "Unauthorized")

Caller == Get(AttachUser(cookie, now))

ReadOps == {"getAssets", "dashboardSummary", "dashboardActivity",
            "getContracts", "getLicenses", "getMaintenance"}

\* what the storage query of a tenant-scoped read returns
TenantRows(op, companyId) ==
    CASE op = "getAssets" -> getAssetsByCompany(companyId)
      [] op = "dashboardSummary" -> {DashboardSummary(companyId)}
      [] op = "dashboardActivity" -> getRecentActivity(companyId)
      [] op = "getContracts" -> getContractsByCompany(companyId)
      [] op = "getLicenses" -> getLicensesByCompany(companyId)
      [] op = "getMaintenance" -> getMaintenanceRecordsByCompany(companyId)

\* GET /api/assets/:companyId, /api/dashboard/:companyId/summary,
\* /api/dashboard/:companyId/activity, /api/contracts/:companyId,
\* /api/licenses/:companyId, /api/maintenance/:companyId: the handler
TenantReadResponse(op, companyId) ==
    [Response(op, 200, "") EXCEPT !.rows = TenantRows(op, companyId)]

TenantRead(op, companyId) ==
    /\ req' = Request(op, companyId, 0, NoBody)
    /\ resp' = IF isAuthenticated(cookie, now)
               THEN TenantReadResponse(op, companyId)
               ELSE Unauthorized(op)
    /\ UNCHANGED <<store, inflight, cookie, now>>

\* the row as it is
wholeUser(user) == user

\* const { passwordHash, ...userWithoutPassword } = user
userWithoutPassword(user) ==
    [f \in DOMAIN user \ {"passwordHash"} |-> user[f]]

\* GET /api/auth/user
AuthUser ==
    /\ req' = Request("authUser", 0, 0, NoBody)
    /\ resp' = IF ~isAuthenticated(cookie, now) THEN Unauthorized("authUser")
               ELSE IF getUser(Caller.userId) = {}
               THEN Response("authUser", 404, "Usuario no encontrado")
               ELSE [Response("authUser", 200, "") EXCEPT
                       !.user = Some(userWithoutPassword(
                                        CHOOSE u \in getUser(Caller.userId) : TRUE))]
    /\ UNCHANGED <<store, inflight, cookie, now>>

\* GET /api/companies
GetCompanies ==
    /\ req' = Request("getCompanies", 0, 0, NoBody)
    /\ resp' = IF ~isAuthenticated(cookie, now) THEN Unauthorized("getCompanies")
               ELSE [Response("getCompanies", 200, "") EXCEPT
                       !.rows = getUserCompanies(Caller.userId)]
    /\ UNCHANGED <<store, inflight, cookie, now>>

\* POST /api/assets
PostAsset(body) ==
    /\ req' = Request("postAsset", 0, 0, body)
    /\ UNCHANGED <<users, companies, userCompanies, contracts, licenses,
                   maintenance, inflight, cookie, now>>
    /\ IF ~isAuthenticated(cookie, now)
       THEN /\ resp' = Unauthorized("postAsset")
            /\ UNCHANGED <<assets, nextAssetId, activityLog>>
       ELSE IF getUserCompanies(Caller.userId) = {}
       THEN /\ resp' = Response("postAsset", 403,
                                "Usuario no asociado a ninguna empresa activa.")
            /\ UNCHANGED <<assets, nextAssetId, activityLog>>
       ELSE LET companyIdFromDB == FirstCompanyId(Caller.userId)
                dataToValidate == [body EXCEPT !.companyId = Some(companyIdFromDB)]
                asset == WithMonthlyCost(
                            [id |-> nextAssetId, companyId |-> companyIdFromDB,
                             name |-> Get(body.name), type |-> Get(body.type),
                             assignedTo |-> Caller.userId], body)
            IN IF ~insertAssetSchemaOk(dataToValidate, FALSE)
               THEN /\ resp' = [Response("postAsset", 400,
                                   "Error de validacion en los datos del activo")
                                  EXCEPT !.errors = TRUE]
                    /\ UNCHANGED <<assets, nextAssetId, activityLog>>
               ELSE /\ nextAssetId <= MaxAssets
                    /\ assets' = assets \cup {asset}
                    /\ nextAssetId' = nextAssetId + 1
                    /\ logActivity(LogEntry(companyIdFromDB, Caller.userId, "created",
                                            "asset", asset.id, asset.name))
                    /\ resp' = [Response("postAsset", 200, "") EXCEPT !.rows = {asset}]

\* PUT /api/assets/:id
PutAsset(id, body) ==
    /\ req' = Request("putAsset", 0, id, body)
    /\ UNCHANGED <<users, companies, userCompanies, contracts, licenses,
                   maintenance, nextAssetId, inflight, cookie, now>>
    /\ IF ~isAuthenticated(cookie, now)
       THEN /\ resp' = Unauthorized("putAsset")
            /\ UNCHANGED <<assets, activityLog>>
       ELSE IF ~insertAssetSchemaOk(body, TRUE) \/ ~\E a \in assets : a.id = id
       THEN \* ZodError, or updateAsset returned no row and asset.companyId threw
            /\ resp' = Response("putAsset", 400, "Failed to update asset")
            /\ UNCHANGED <<assets, activityLog>>
       ELSE LET old == CHOOSE a \in assets : a.id = id
                asset == UpdatedAsset(old, body)
            IN /\ assets' = (assets \ {old}) \cup {asset}
               /\ logActivity(LogEntry(asset.companyId, Caller.userId, "updated",
                                       "asset", asset.id, asset.name))
               /\ resp' = [Response("putAsset", 200, "") EXCEPT !.rows = {asset}]

\* a DELETE that looks the asset up by its id alone
DeleteAssetOfAnyCompany(id, companyId) ==
    /\ req' = Request("deleteAsset", companyId, id, NoBody)
    /\ UNCHANGED <<users, companies, userCompanies, contracts, licenses,
                   maintenance, nextAssetId, inflight, cookie, now>>
    /\ IF ~isAuthenticated(cookie, now)
       THEN /\ resp' = Unauthorized("deleteAsset")
            /\ UNCHANGED <<assets, activityLog>>
       ELSE IF ~\E a \in assets : a.id = id
       THEN /\ resp' = Response("deleteAsset", 404, "Asset not found")
            /\ UNCHANGED <<assets, activityLog>>
       ELSE LET asset == CHOOSE a \in assets : a.id = id
            IN /\ assets' = assets \ {asset}
               /\ logActivity(LogEntry(companyId, Caller.userId, "deleted",
                                       "asset", id, asset.name))
               /\ resp' = Response("deleteAsset", 200, "Asset deleted successfully")

\* DELETE /api/assets/:id/:companyId
DeleteAsset(id, companyId) ==
    /\ req' = Request("deleteAsset", companyId, id, NoBody)
    /\ UNCHANGED <<users, companies, userCompanies, contracts, licenses,
                   maintenance, nextAssetId, inflight, cookie, now>>
    /\ IF ~isAuthenticated(cookie, now)
       THEN /\ resp' = Unauthorized("deleteAsset")
            /\ UNCHANGED <<assets, activityLog>>
       ELSE IF getAssetById(id, companyId) = {}
       THEN /\ resp' = Response("deleteAsset", 404, "Asset not found")
            /\ UNCHANGED <<assets, activityLog>>
       ELSE LET asset == CHOOSE a \in getAssetById(id, companyId) : TRUE
            IN /\ assets' = assets \ {asset}
               /\ logActivity(LogEntry(companyId, Caller.userId, "deleted",
                                       "asset", id, asset.name))
               /\ resp' = Response("deleteAsset", 200, "Asset deleted successfully")

\* The same three handlers when storage.logActivity throws after the asset was
\* written: the catch block answers, nothing undoes the write.  (-RolledBack:
\* the handler as it would be if the failure undid the write.)
PostAssetLogFailsRolledBack(body) ==
    /\ isAuthenticated(cookie, now)
    /\ getUserCompanies(Caller.userId) # {}
    /\ insertAssetSchemaOk([body EXCEPT !.companyId = Some(FirstCompanyId(Caller.userId))],
                           FALSE)
    /\ nextAssetId <= MaxAssets
    /\ req' = Request("postAsset", 0, 0, body)
    /\ resp' = Response("postAsset", 500, "Error al crear el activo")
    /\ UNCHANGED <<store, inflight, cookie, now>>

PostAssetLogFails(body) ==
    /\ isAuthenticated(cookie, now)
    /\ getUserCompanies(Caller.userId) # {}
    /\ insertAssetSchemaOk([body EXCEPT !.companyId = Some(FirstCompanyId(Caller.userId))],
                           FALSE)
    /\ nextAssetId <= MaxAssets
    /\ req' = Request("postAsset", 0, 0, body)
    /\ assets' = assets \cup {WithMonthlyCost(
                               [id |-> nextAssetId,
                                companyId |-> FirstCompanyId(Caller.userId),
                                name |-> Get(body.name), type |-> Get(body.type),
                                assignedTo |-> Caller.userId], body)}
    /\ nextAssetId' = nextAssetId + 1
    /\ resp' = Response("postAsset", 500, "Error al crear el activo")
    /\ UNCHANGED <<users, companies, userCompanies, contracts, licenses, maintenance,
                   activityLog, inflight, cookie, now>>

PutAssetLogFails(id, body) ==
    /\ isAuthenticated(cookie, now)
    /\ insertAssetSchemaOk(body, TRUE)
    /\ \E a \in assets : a.id = id
    /\ req' = Request("putAsset", 0, id, body)
    /\ LET old == CHOOSE a \in assets : a.id = id
       IN assets' = (assets \ {old}) \cup {UpdatedAsset(old, body)}
    /\ resp' = Response("putAsset", 400, "Failed to update asset")
    /\ UNCHANGED <<users, companies, userCompanies, contracts, licenses, maintenance,
                   activityLog, nextAssetId, inflight, cookie, now>>

DeleteAssetLogFails(id, companyId) ==
    /\ isAuthenticated(cookie, now)
    /\ getAssetById(id, companyId) # {}
    /\ req' = Request("deleteAsset", companyId, id, NoBody)
    /\ assets' = assets \ getAssetById(id, companyId)
    /\ resp' = Response("deleteAsset", 500, "Failed to delete asset")
    /\ UNCHANGED <<users, companies, userCompanies, contracts, licenses, maintenance,
                   activityLog, nextAssetId, inflight, cookie, now>>

\* POST /api/contracts, /api/licenses, /api/maintenance share one shape: parse,
\* create, log, answer; any throw is answered 400.  The store refuses a row
\* whose companyId (or assetId) names no row (foreign key).
CreateOps == {"postContract", "postLicense", "postMaintenance"}

CreateSchemaOk(op, body) ==
    CASE op = "postContract" -> insertContractSchemaOk(body)
      [] op = "postLicense" -> insertLicenseSchemaOk(body)
      [] op = "postMaintenance" -> insertMaintenanceRecordSchemaOk(body)

CreateFailure(op) ==
    CASE op = "postContract" -> "Failed to create contract"
      [] op = "postLicense" -> "Failed to create license"
      [] op = "postMaintenance" -> "Failed to create maintenance record"

ForeignKeysOk(op, body) ==
    /\ Get(body.companyId) \in CompanyIds
    /\ op = "postMaintenance" => \E a \in assets : a.id = Get(body.assetId)

\* the handler once the caller is authenticated
CreateRecord(op, body) ==
    IF ~CreateSchemaOk(op, body) \/ ~ForeignKeysOk(op, body)
    THEN /\ resp' = Response(op, 400, CreateFailure(op))
         /\ UNCHANGED <<contracts, licenses, maintenance, activityLog>>
    ELSE LET companyId == Get(body.companyId) IN
         CASE op = "postContract" ->
                LET row == [id |-> Cardinality(contracts) + 1, companyId |-> companyId,
                            name |-> Get(body.name)]
                IN /\ contracts' = contracts \cup {row}
                   /\ logActivity(LogEntry(companyId, Caller.userId, "created",
                                           "contract", row.id, row.name))
                   /\ resp' = [Response(op, 200, "") EXCEPT !.rows = {row}]
                   /\ UNCHANGED <<licenses, maintenance>>
           [] op = "postLicense" ->
                LET row == [id |-> Cardinality(licenses) + 1, companyId |-> companyId,
                            name |-> Get(body.name)]
                IN /\ licenses' = licenses \cup {row}
                   /\ logActivity(LogEntry(companyId, Caller.userId, "created",
                                           "license", row.id, row.name))
                   /\ resp' = [Response(op, 200, "") EXCEPT !.rows = {row}]
                   /\ UNCHANGED <<contracts, maintenance>>
           [] op = "postMaintenance" ->
                LET row == [id |-> Cardinality(maintenance) + 1, companyId |-> companyId,
                            assetId |-> Get(body.assetId),
                            description |-> Get(body.description)]
                IN /\ maintenance' = maintenance \cup {row}
                   /\ logActivity(LogEntry(companyId, Caller.userId, "created",
                                           "maintenance_record", row.id,
                                           <<"Maintenance for ">> \o row.description))
                   /\ resp' = [Response(op, 200, "") EXCEPT !.rows = {row}]
                   /\ UNCHANGED <<contracts, licenses>>

PostRecord(op, body) ==
    /\ req' = Request(op, 0, 0, body)
    /\ UNCHANGED <<users, companies, userCompanies, assets, nextAssetId,
                   inflight, cookie, now>>
    /\ IF ~isAuthenticated(cookie, now)
       THEN /\ resp' = Unauthorized(op)
            /\ UNCHANGED <<contracts, licenses, maintenance, activityLog>>
       ELSE CreateRecord(op, body)

----------------------------------------------------------------------------
(* server/routes: the admin routes *)

AccessDenied(op) == Response(op, 403, "Access denied. Super admin required.")

\* the role check made on the token's claim instead of the stored row
NotSuperAdminByToken(userId) == Get(AttachUser(cookie, now)).role # "super_admin"

\* user?.role !== 'super_admin', on the row storage.getUser returns
NotSuperAdmin(userId) == \A u \in getUser(userId) : u.role # "super_admin"

\* POST /api/admin/support-access/:companyId
SupportAccess(companyId) ==
    /\ req' = Request("supportAccess", companyId, 0, NoBody)
    /\ UNCHANGED <<users, companies, userCompanies, assets, contracts, licenses,
                   maintenance, nextAssetId, inflight, now>>
    /\ IF ~isAuthenticated(cookie, now)
       THEN /\ resp' = Unauthorized("supportAccess")
            /\ UNCHANGED <<cookie, activityLog>>
       ELSE IF NotSuperAdmin(Caller.userId)
       THEN /\ resp' = AccessDenied("supportAccess")
            /\ UNCHANGED <<cookie, activityLog>>
       ELSE IF getCompanyById(companyId) = {}
       THEN /\ resp' = Response("supportAccess", 404, "Company not found")
            /\ UNCHANGED <<cookie, activityLog>>
       ELSE LET user == CHOOSE u \in getUser(Caller.userId) : TRUE
                company == CHOOSE c \in getCompanyById(companyId) : TRUE
                supportModeData == [companyId |-> companyId, adminId |-> user.id,
                                    startTime |-> now]
                newPayload == [Caller EXCEPT !.supportMode = Some(supportModeData)]
                newToken == generateToken(
                    Claims(newPayload.userId, 0, newPayload.email,
                           newPayload.firstName, newPayload.lastName,
                           newPayload.role, newPayload.supportMode), now)
                r == [Response("supportAccess", 200, "Support access granted")
                        EXCEPT !.company = Some(company),
                               !.user = Some(newPayload),
                               !.setCookie = Some(newToken)]
            IN /\ logActivity(LogEntry(companyId, user.id, "accessed", "company",
                                       companyId, <<"Support access to ">> \o company.name))
               /\ resp' = r
               /\ cookie' = CookieAfter(r)

\* POST /api/admin/exit-support
ExitSupport ==
    /\ req' = Request("exitSupport", 0, 0, NoBody)
    /\ UNCHANGED <<users, companies, userCompanies, assets, contracts, licenses,
                   maintenance, nextAssetId, inflight, now>>
    /\ IF ~isAuthenticated(cookie, now)
       THEN /\ resp' = Unauthorized("exitSupport")
            /\ UNCHANGED <<cookie, activityLog>>
       ELSE IF NotSuperAdmin(Caller.userId)
       THEN /\ resp' = AccessDenied("exitSupport")
            /\ UNCHANGED <<cookie, activityLog>>
       ELSE IF ~Present(Caller.supportMode)
       THEN /\ resp' = [Response("exitSupport", 200, "Exited support mode")
                          EXCEPT !.user = Some(Caller)]
            /\ UNCHANGED <<cookie, activityLog>>
       ELSE LET user == CHOOSE u \in getUser(Caller.userId) : TRUE
                supportInfo == Get(Caller.supportMode)
                newPayload == [Caller EXCEPT !.supportMode = None]
                newToken == generateToken(
                    Claims(newPayload.userId, 0, newPayload.email,
                           newPayload.firstName, newPayload.lastName,
                           newPayload.role, newPayload.supportMode), now)
                r == [Response("exitSupport", 200, "Exited support mode")
                        EXCEPT !.user = Some(newPayload),
                               !.setCookie = Some(newToken)]
            IN /\ logActivity(LogEntry(supportInfo.companyId, user.id, "exited",
                                       "company", supportInfo.companyId,
                                       <<"Exited support mode">>))
               /\ resp' = r
               /\ cookie' = CookieAfter(r)

\* GET /api/me
Me ==
    /\ req' = Request("me", 0, 0, NoBody)
    /\ resp' = IF ~isAuthenticated(cookie, now) THEN Unauthorized("me")
               ELSE [Response("me", 200, "") EXCEPT !.rows = {Caller.userId}]
    /\ UNCHANGED <<store, inflight, cookie, now>>

\* GET /api/admin/companies
AdminCompanies ==
    /\ req' = Request("adminCompanies", 0, 0, NoBody)
    /\ resp' = IF ~isAuthenticated(cookie, now) THEN Unauthorized("adminCompanies")
               ELSE IF NotSuperAdmin(Caller.userId) THEN AccessDenied("adminCompanies")
               ELSE [Response("adminCompanies", 200, "") EXCEPT !.rows = companies]
    /\ UNCHANGED <<store, inflight, cookie, now>>

\* storage.updateCompanyPlan, storage.toggleCompanyStatus: the row rewritten
WithPlan(c, plan) == [c EXCEPT !.plan = plan]
WithStatus(c, isActive) == [c EXCEPT !.isActive = isActive]

\* PUT /api/admin/companies/:companyId/plan
AdminPlan(companyId, body) ==
    /\ req' = Request("adminPlan", companyId, 0, body)
    /\ UNCHANGED <<users, userCompanies, assets, contracts, licenses, maintenance,
                   activityLog, nextAssetId, inflight, cookie, now>>
    /\ IF ~isAuthenticated(cookie, now)
       THEN resp' = Unauthorized("adminPlan") /\ UNCHANGED companies
       ELSE IF NotSuperAdmin(Caller.userId)
       THEN resp' = AccessDenied("adminPlan") /\ UNCHANGED companies
       ELSE IF ~(Present(body.plan) /\ Get(body.plan) \in Plans)
       THEN resp' = Response("adminPlan", 400, "Invalid plan type") /\ UNCHANGED companies
       ELSE /\ companies' = {IF c.id = companyId THEN WithPlan(c, Get(body.plan)) ELSE c :
                                c \in companies}
            /\ resp' = [Response("adminPlan", 200, "") EXCEPT
                          !.company = IF getCompanyById(companyId) = {} THEN None
                                      ELSE Some(WithPlan(CHOOSE c \in getCompanyById(companyId) : TRUE,
                                                         Get(body.plan)))]

\* PUT /api/admin/companies/:companyId/status
AdminStatus(companyId, body) ==
    /\ req' = Request("adminStatus", companyId, 0, body)
    /\ UNCHANGED <<users, userCompanies, assets, contracts, licenses, maintenance,
                   activityLog, nextAssetId, inflight, cookie, now>>
    /\ IF ~isAuthenticated(cookie, now)
       THEN resp' = Unauthorized("adminStatus") /\ UNCHANGED companies
       ELSE IF NotSuperAdmin(Caller.userId)
       THEN resp' = AccessDenied("adminStatus") /\ UNCHANGED companies
       ELSE /\ companies' = {IF c.id = companyId THEN WithStatus(c, body.isActive) ELSE c :
                                c \in companies}
            /\ resp' = [Response("adminStatus", 200, "") EXCEPT
                          !.company = IF getCompanyById(companyId) = {} THEN None
                                      ELSE Some(WithStatus(CHOOSE c \in getCompanyById(companyId) : TRUE,
                                                           body.isActive))]

\* GET /api/admin/support-status
SupportStatus ==
    /\ req' = Request("supportStatus", 0, 0, NoBody)
    /\ resp' = IF ~isAuthenticated(cookie, now) THEN Unauthorized("supportStatus")
               ELSE IF NotSuperAdmin(Caller.userId) THEN AccessDenied("supportStatus")
               ELSE [Response("supportStatus", 200, "") EXCEPT
                       !.company = IF Present(Caller.supportMode)
                                      /\ getCompanyById(Get(Caller.supportMode).companyId) # {}
                                   THEN Some(CHOOSE c \in getCompanyById(
                                                 Get(Caller.supportMode).companyId) : TRUE)
                                   ELSE None]
    /\ UNCHANGED <<store, inflight, cookie, now>>

\* insertCompanySchema.parse(body): name (min 1) and plan are required
insertCompanySchemaOk(body) ==
    /\ MinString(body.name, 1)
    /\ Present(body.plan) /\ Get(body.plan) \in Plans

\* POST /api/companies: createCompany, addUserToCompany, logActivity; any throw
\* is answered 400
PostCompany(body) ==
    /\ req' = Request("postCompany", 0, 0, body)
    /\ UNCHANGED <<users, assets, contracts, licenses, maintenance, nextAssetId,
                   inflight, cookie, now>>
    /\ IF ~isAuthenticated(cookie, now)
       THEN /\ resp' = Unauthorized("postCompany")
            /\ UNCHANGED <<companies, userCompanies, activityLog>>
       ELSE IF ~insertCompanySchemaOk(body) \/ getUser(Caller.userId) = {}
       THEN \* ZodError, or the membership's foreign key on users
            /\ resp' = Response("postCompany", 400, "Failed to create company")
            /\ UNCHANGED <<companies, userCompanies, activityLog>>
       ELSE LET company == [id |-> Cardinality(companies) + 1, name |-> Get(body.name),
                            plan |-> Get(body.plan), ruc |-> None, cedula |-> None,
                            isActive |-> TRUE]
            IN /\ companies' = companies \cup {company}
               /\ userCompanies' = userCompanies \cup
                      {[userId |-> Caller.userId, companyId |-> company.id,
                        role |-> "manager_owner"]}
               /\ logActivity(LogEntry(company.id, Caller.userId, "created", "company",
                                       company.id, company.name))
               /\ resp' = [Response("postCompany", 200, "") EXCEPT !.company = Some(company)]

----------------------------------------------------------------------------
(* The environment: the client and the clock *)

AttackerKey == "attacker-key"

\* what a client can make of a token it holds without the server's secret
Tampered(kind, token) ==
    CASE kind = "role" -> [token EXCEPT !.payload.role = "super_admin"]
      [] kind = "userId" -> [token EXCEPT !.payload.userId = 1]
      [] kind = "exp" -> [token EXCEPT !.payload.exp = @ + TOKEN_DAYS]
      [] kind = "sig" -> [token EXCEPT !.sig = HS256(token.payload, AttackerKey)]

TamperKinds == {"role", "sig"}

\* the client rewrites its cookie
TamperCookie(kind) ==
    /\ Present(cookie)
    /\ jwtVerifyOk(Get(cookie), now)
    /\ cookie' = Some(Tampered(kind, Get(cookie)))
    /\ cookie' # cookie
    /\ req' = IdleRequest
    /\ resp' = Idle
    /\ UNCHANGED <<store, inflight, now>>

\* the client puts back the token it held when it logged out
ReplayCookie ==
    /\ req.op = "logout"
    /\ Present(req.jar)
    /\ cookie' = req.jar
    /\ resp' = Idle
    /\ UNCHANGED <<store, inflight, now, req>>

\* a token's lifetime passes
Tick ==
    /\ now + TOKEN_DAYS <= MaxNow
    /\ now' = now + TOKEN_DAYS
    /\ req' = IdleRequest
    /\ resp' = Idle
    /\ UNCHANGED <<store, inflight, cookie>>

\* a role is changed, or a user removed, by an operation outside these routes
DemoteUser(userId) ==
    /\ \E u \in getUser(userId) : u.role = "super_admin"
    /\ users' = {IF u.id = userId THEN [u EXCEPT !.role = "technical_admin"] ELSE u :
                    u \in users}
    /\ req' = IdleRequest
    /\ resp' = Idle
    /\ UNCHANGED <<companies, userCompanies, assets, contracts, licenses, maintenance,
                   activityLog, nextAssetId, inflight, cookie, now>>

RemoveUser(userId) ==
    /\ getUser(userId) # {}
    /\ users' = users \ getUser(userId)
    /\ userCompanies' = userCompanies \ getUserCompanies(userId)
    /\ req' = IdleRequest
    /\ resp' = Idle
    /\ UNCHANGED <<companies, assets, contracts, licenses, maintenance,
                   activityLog, nextAssetId, inflight, cookie, now>>

----------------------------------------------------------------------------
(* Inputs of the requests *)

NameAcme == <<"A", "c", "m", "e">>
NameLaptop == <<"L", "a", "p">>

RegBody(email, plan, ruc, cedula) ==
    [name |-> Some(NameAcme), plan |-> Some(plan), ruc |-> ruc, cedula |-> cedula,
     address |-> Some(<<"Q">>), phone |-> Some(<<"0", "9">>), email |-> Some(email),
     firstName |-> Some(<<"A", "n", "a">>), lastName |-> Some(<<"P">>),
     password |-> Some(PwGood), confirmPassword |-> Some(PwGood)]

RegisterBodies ==
    {RegBody(EmailA, "pyme", Some(RucA), None),
     RegBody(EmailA, "pyme", None, None),
     RegBody(EmailA, "pyme", Some(Ruc12), None),
     RegBody(EmailB, "pyme", Some(RucA), None),
     RegBody(EmailB, "professional", None, Some(CedK)),
     RegBody(EmailB, "professional", None, None),
     RegBody(EmailB, "professional", None, Some(Ced9))}
    \cup {[RegBody(EmailA, "pyme", Some(RucA), None) EXCEPT !.confirmPassword = Some(PwOther)],
          [RegBody(EmailA, "pyme", Some(RucA), None) EXCEPT !.name = None],
          [RegBody(EmailA, "pyme", Some(RucA), None) EXCEPT !.password = Some(PwShort),
                                                           !.confirmPassword = Some(PwShort)],
          RegBody(EmailBad, "pyme", Some(RucA), None),
          RegBody(EmailA, "gold", Some(RucA), None)}

LoginBodies ==
    {[email |-> Some(e), password |-> p] :
        e \in {EmailRoot, EmailA, EmailB, EmailUnknown, EmailBad},
        p \in {Some(PwGood), Some(PwOther), None}}

CompanyIdInputs == {1, 2}
AssetIdInputs == 1..MaxAssets

AssetBodies ==
    {[name |-> n, type |-> Some("physical"), companyId |-> c] :
        n \in {Some(NameLaptop), Some(<<>>)}, c \in {None} \cup {Some(i) : i \in CompanyIdInputs}}

PutBodies ==
    {[name |-> None, type |-> None, companyId |-> c] :
        c \in {None} \cup {Some(i) : i \in CompanyIdInputs}}
    \cup {[name |-> Some(<<>>), type |-> None, companyId |-> None]}

PlanBodies == {[plan |-> p] : p \in {Some("pyme"), Some("professional"), Some("gold"), None}}
StatusBodies == {[isActive |-> b] : b \in BOOLEAN}
CompanyBodies == {[name |-> n, plan |-> Some("pyme")] : n \in {Some(NameAcme), Some(<<>>)}}

IsoDay == <<"2", "0", "2", "6", "-", "0", "1", "-", "0", "1">>

RecordBodies ==
    {[companyId |-> Some(c), name |-> n, vendor |-> Some(<<"V">>),
      startDate |-> Some(JsonString(IsoDay)), endDate |-> Some(JsonString(IsoDay)),
      assetId |-> Some(1), title |-> n, description |-> n] :
        c \in CompanyIdInputs, n \in {Some(<<"S">>)}}
    \cup {[companyId |-> Some(1), name |-> Some(<<>>), vendor |-> Some(<<"V">>),
           startDate |-> None, endDate |-> None,
           assetId |-> Some(1), title |-> Some(<<>>), description |-> Some(<<>>)]}

----------------------------------------------------------------------------
(* The system *)

RootUser ==
    [id |-> 1, email |-> EmailRoot, passwordHash |-> hash(PwGood),
     firstName |-> <<"R">>, lastName |-> <<"T">>, role |-> "super_admin"]

NewUserRow(id, email) ==
    [id |-> id, email |-> email, passwordHash |-> hash(PwGood),
     firstName |-> <<"A", "n", "a">>, lastName |-> <<"P">>, role |-> "manager_owner"]

\* a fresh installation: the seeded super_admin and no tenant
Init ==
    /\ users = {RootUser}
    /\ companies = {}
    /\ userCompanies = {}
    /\ assets = {}
    /\ contracts = {}
    /\ licenses = {}
    /\ maintenance = {}
    /\ activityLog = <<>>
    /\ nextAssetId = 1
    /\ inflight = EmptyBag
    /\ cookie = None
    /\ now = 0
    /\ req = IdleRequest
    /\ resp = Idle

Next ==
    \/ \E body \in RegisterBodies : RegisterReceive(body)
    \/ \E d \in BagToSet(inflight) : RegisterComplete(d)
    \/ \E body \in LoginBodies : Login(body)
    \/ Logout
    \/ \E op \in ReadOps, c \in CompanyIdInputs : TenantRead(op, c)
    \/ AuthUser
    \/ Me
    \/ GetCompanies
    \/ \E body \in AssetBodies : PostAsset(body)
    \/ \E id \in AssetIdInputs, body \in PutBodies : PutAsset(id, body)
    \/ \E id \in AssetIdInputs, c \in CompanyIdInputs : DeleteAsset(id, c)
    \/ \E op \in CreateOps, body \in RecordBodies : PostRecord(op, body)
    \/ AdminCompanies
    \/ \E c \in CompanyIdInputs : SupportAccess(c)
    \/ ExitSupport
    \/ SupportStatus
    \/ \E c \in CompanyIdInputs, body \in PlanBodies : AdminPlan(c, body)
    \/ \E c \in CompanyIdInputs, body \in StatusBodies : AdminStatus(c, body)
    \/ \E body \in CompanyBodies : PostCompany(body)
    \/ \E kind \in TamperKinds : TamperCookie(kind)
    \/ Tick
    \/ DemoteUser(1)
    \/ RemoveUser(1)
    \/ \E body \in AssetBodies : PostAssetLogFails(body)
    \/ \E id \in AssetIdInputs, body \in PutBodies : PutAssetLogFails(id, body)
    \/ \E id \in AssetIdInputs, c \in CompanyIdInputs : DeleteAssetLogFails(id, c)

Spec == Init /\ [][Next]_vars

----------------------------------------------------------------------------
(* The system by parts.  Next is too wide for one exhaustive run, so the     *)
(* properties are checked on restrictions of it: the onboarding routes from *)
(* a fresh installation (SpecOnboarding); the routes behind isAuthenticated *)
(* for every user, from the store two registrations leave behind, a state   *)
(* SpecOnboarding reaches (SpecTenant); and the same routes for one user    *)
(* whose cookie is rewritten and outlives its token (SpecSession).          *)

NextOnboarding ==
    \/ \E body \in RegisterBodies : RegisterReceive(body)
    \/ \E d \in BagToSet(inflight) : RegisterComplete(d)
    \/ \E body \in LoginBodies : Login(body)
    \/ Logout
    \/ AuthUser
    \/ Me

SpecOnboarding == Init /\ [][NextOnboarding]_vars

UserA == NewUserRow(2, EmailA)
UserB == NewUserRow(3, EmailB)
CompanyA == [id |-> 1, name |-> NameAcme, plan |-> "pyme", ruc |-> Some(RucA),
             cedula |-> None, isActive |-> TRUE]
CompanyB == [id |-> 2, name |-> NameAcme, plan |-> "professional", ruc |-> None,
             cedula |-> Some(CedK), isActive |-> TRUE]

\* after EmailA registered a pyme and EmailB a professional
InitTenant ==
    /\ users = {RootUser, UserA, UserB}
    /\ companies = {CompanyA, CompanyB}
    /\ userCompanies = {[userId |-> 2, companyId |-> 1, role |-> "manager_owner"],
                        [userId |-> 3, companyId |-> 2, role |-> "manager_owner"]}
    /\ assets = {}
    /\ contracts = {}
    /\ licenses = {}
    /\ maintenance = {}
    /\ activityLog = <<>>
    /\ nextAssetId = 1
    /\ inflight = EmptyBag
    /\ cookie = None
    /\ now = 0
    /\ req = IdleRequest
    /\ resp = Idle

TenantStoreReached ==
    /\ users = {RootUser, UserA, UserB}
    /\ companies = {CompanyA, CompanyB}
    /\ userCompanies = {[userId |-> 2, companyId |-> 1, role |-> "manager_owner"],
                        [userId |-> 3, companyId |-> 2, role |-> "manager_owner"]}
    /\ inflight = EmptyBag

NextTenant ==
    \/ \E body \in LoginBodies : Login(body)
    \/ Logout
    \/ \E op \in ReadOps, c \in CompanyIdInputs : TenantRead(op, c)
    \/ GetCompanies
    \/ \E body \in AssetBodies : PostAsset(body)
    \/ \E id \in AssetIdInputs, body \in PutBodies : PutAsset(id, body)
    \/ \E id \in AssetIdInputs, c \in CompanyIdInputs : DeleteAsset(id, c)
    \/ \E op \in CreateOps, body \in RecordBodies : PostRecord(op, body)
    \/ AdminCompanies
    \/ \E c \in CompanyIdInputs : SupportAccess(c)
    \/ ExitSupport

SpecTenant == InitTenant /\ [][NextTenant]_vars

SessionLoginBodies ==
    {[email |-> Some(EmailA), password |-> p] : p \in {Some(PwGood), Some(PwOther)}}

NextSession ==
    \/ \E body \in SessionLoginBodies : Login(body)
    \/ Logout
    \/ \E op \in ReadOps, c \in CompanyIdInputs : TenantRead(op, c)
    \/ AuthUser
    \/ Me
    \/ GetCompanies
    \/ \E body \in AssetBodies : PostAsset(body)
    \/ \E id \in AssetIdInputs, body \in PutBodies : PutAsset(id, body)
    \/ \E id \in AssetIdInputs, c \in CompanyIdInputs : DeleteAsset(id, c)
    \/ \E op \in CreateOps, body \in RecordBodies : PostRecord(op, body)
    \/ AdminCompanies
    \/ \E c \in CompanyIdInputs : SupportAccess(c)
    \/ ExitSupport
    \/ \E kind \in TamperKinds : TamperCookie(kind)
    \/ Tick

SpecSession == InitTenant /\ [][NextSession]_vars

----------------------------------------------------------------------------
(* Tenant isolation (checked under SpecTenant) *)

\* the user has a membership row for the company
IsMember(userId, companyId) ==
    \E m \in userCompanies : m.userId = userId /\ m.companyId = companyId

\* the identity carries supportMode for the company
InSupportFor(user, companyId) ==
    Present(user.supportMode) /\ Get(user.supportMode).companyId = companyId

\* the identity may act on the company: member, or in support mode for it
Authorized(user, companyId) ==
    IsMember(user.userId, companyId) \/ InSupportFor(user, companyId)

\* an ordinary user with no claim on the company
Outsider(user, companyId) ==
    user.role # "super_admin" /\ ~Authorized(user, companyId)

\* C1: a tenant-scoped read by an authenticated caller who is neither a member
\* of the company in the path nor in support mode for it (here: an ordinary
\* user) is answered 403 and carries none of the company's rows.
ForeignReadForbidden ==
    (/\ req.op \in ReadOps
     /\ Present(req.user)
     /\ Outsider(Get(req.user), req.companyId))
    => (resp.status = 403 /\ resp.rows = {})

\* C2: GET /api/assets/B by a super_admin who has no membership in B succeeds
\* exactly when the token the request carries has supportMode for B.
SupportModeGatesAssets ==
    (/\ req.op = "getAssets"
     /\ Present(req.user)
     /\ Get(req.user).role = "super_admin"
     /\ ~IsMember(Get(req.user).userId, req.companyId))
    => (resp.status = 200 <=> InSupportFor(Get(req.user), req.companyId))

\* the super_admin entered support mode for company 2 and read its assets with
\* the reissued token
SupportReadSucceeded ==
    /\ req.op = "getAssets"
    /\ req.companyId = 2
    /\ Present(req.user)
    /\ InSupportFor(Get(req.user), 2)
    /\ resp.status = 200

\* the request just handled (req') is a write by an ordinary user aimed at a
\* company that user has no claim on: a PUT on an asset of such a company, a PUT whose body moves the
\* asset to one, a DELETE with one in the path, a POST of a contract, license or
\* maintenance record with one in the body
CrossTenantWrite ==
    /\ Present(req'.user)
    /\ LET user == Get(req'.user) IN
       \/ /\ req'.op = "putAsset"
          /\ \/ \E a \in assets : a.id = req'.id /\ Outsider(user, a.companyId)
             \/ /\ Present(req'.body.companyId)
                /\ Outsider(user, Get(req'.body.companyId))
       \/ /\ req'.op = "deleteAsset"
          /\ Outsider(user, req'.companyId)
       \/ /\ req'.op \in CreateOps
          /\ Present(req'.body.companyId)
          /\ Outsider(user, Get(req'.body.companyId))

\* C3: a cross-tenant write by an authenticated caller leaves every table of
\* the store as it was, whatever status it is refused with.
CrossTenantWriteRefused ==
    [][CrossTenantWrite => UNCHANGED store]_vars

----------------------------------------------------------------------------
(* Onboarding (checked under SpecOnboarding) *)

KnownEmail(body) == getUserByEmail(Get(body.email)) # {}

WrongPassword(body) ==
    \E u \in getUserByEmail(Get(body.email)) :
        ~verify(Get(body.password), u.passwordHash)

\* C4: whatever the store holds, a well-formed login with an unknown email and
\* a well-formed login with a known email and a wrong password get the same
\* response, field for field: status 401, one message, no cookie set; and the
\* response the login route gave to such a request is that response.
LoginFailuresIndistinguishable ==
    /\ \A b1, b2 \in LoginBodies :
           (/\ loginSchemaOk(b1) /\ loginSchemaOk(b2)
            /\ ~KnownEmail(b1) /\ WrongPassword(b2))
           => /\ LoginResponse(b1) = LoginResponse(b2)
              /\ LoginResponse(b1).status = 401
              /\ LoginResponse(b1).setCookie = None
    /\ (/\ req.op = "login"
        /\ loginSchemaOk(req.body)
        /\ (~KnownEmail(req.body) \/ WrongPassword(req.body)))
       => resp = Response("login", 401, InvalidCredentials)

\* a login with a registered email and a wrong password was refused, while
\* some well-formed login names an email nobody registered
WrongPasswordRefused ==
    /\ req.op = "login"
    /\ loginSchemaOk(req.body)
    /\ WrongPassword(req.body)
    /\ resp.status = 401
    /\ \E b \in LoginBodies : loginSchemaOk(b) /\ ~KnownEmail(b)

\* the register request d leaves the handler's await in this step: the store
\* has run registerCompany and the response is out
Settles(d) ==
    /\ BagIn(d, inflight)
    /\ inflight' = inflight (-) SetToBag({d})
    /\ req' = PublicRequest("register", d.body)

\* no row without its companions: emails are unique, every company and every
\* registered user has a membership, every membership joins two stored rows
NoOrphanRows ==
    /\ \A u1, u2 \in users : u1.email = u2.email => u1 = u2
    /\ \A c \in companies : \E m \in userCompanies : m.companyId = c.id
    /\ \A u \in users : u = RootUser \/ \E m \in userCompanies : m.userId = u.id
    /\ \A m \in userCompanies :
           getUser(m.userId) # {} /\ getCompanyById(m.companyId) # {}
    /\ Cardinality(companies) = Cardinality(userCompanies)
    /\ Cardinality(users) = Cardinality(companies) + 1

\* what a settling registration does: refused with 400 and nothing written when
\* its email is already stored; accepted, with one company, one user and one
\* membership written, when nothing collides
RegistrationSettles ==
    \A d \in BagToSet(inflight) :
        Settles(d) =>
            IF KnownEmail(d.body)
            THEN resp'.status = 400 /\ UNCHANGED <<store, cookie>>
            ELSE ~UniqueViolation(d.body) =>
                    /\ resp'.status = 200
                    /\ Cardinality(getUserByEmail(Get(d.body.email))') = 1
                    /\ Cardinality(users') = Cardinality(users) + 1
                    /\ Cardinality(companies') = Cardinality(companies) + 1
                    /\ Cardinality(userCompanies') = Cardinality(userCompanies) + 1

PlanIdRuleBroken(body) ==
    /\ Present(body.plan)
    /\ \/ /\ Get(body.plan) = "pyme"
          /\ ~(Present(body.ruc) /\ AllDigits(Get(body.ruc), 13))
       \/ /\ Get(body.plan) = "professional"
          /\ ~(Present(body.cedula) /\ AllDigits(Get(body.cedula), 10))

\* C6: a registration whose plan's identifier is missing or malformed is never
\* accepted.
PlanIdentifierRequired ==
    (req.op = "register" /\ PlanIdRuleBroken(req.body)) => resp.status # 200

\* the body of the last request fails the schema of its route
SchemaRejects ==
    \/ req.op = "register" /\ ~companyRegistrationSchemaOk(req.body)
    \/ req.op = "login" /\ ~loginSchemaOk(req.body)

\* C7: a register or login request whose body fails the schema is answered 400
\* with field-level messages and sets no cookie.
SchemaFailureIs400 ==
    SchemaRejects => (resp.status = 400 /\ resp.errors /\ resp.setCookie = None)

\* C8: a registration that collides with a stored email, ruc or cedula is
\* answered 400 with the one generic collision message.
CollisionMessageGeneric ==
    [][\A d \in BagToSet(inflight) :
          (Settles(d) /\ (KnownEmail(d.body) \/ UniqueViolation(d.body)))
          => (resp'.status = 400 /\ resp'.message = DuplicateMessage)]_vars

----------------------------------------------------------------------------
(* jwtUtils on its own: a token is issued for a claims object, possibly      *)
(* altered by its holder, and verified as the days pass.  req holds the     *)
(* claims and the token as issued, cookie the token as presented, resp the  *)
(* result of verifyToken.                                                   *)

SupportModeB == [companyId |-> 2, adminId |-> 1, startTime |-> 0]

ClaimsInputs ==
    {Claims(ids[1], ids[2], e, <<"A", "n", "a">>, <<"P">>, r, sm) :
        ids \in {<<2, 0>>, <<0, 3>>, <<2, 3>>}, e \in {EmailA}, r \in Roles,
        sm \in {None, Some(SupportModeB)}}

AllTamperKinds == {"role", "userId", "exp", "sig"}

InitJwt ==
    /\ users = {RootUser}
    /\ companies = {}
    /\ userCompanies = {}
    /\ assets = {}
    /\ contracts = {}
    /\ licenses = {}
    /\ maintenance = {}
    /\ activityLog = <<>>
    /\ nextAssetId = 1
    /\ inflight = EmptyBag
    /\ cookie = None
    /\ now = 0
    /\ req = IdleRequest
    /\ resp = Idle

\* jwtUtils.generateToken(claims), the token handed to its holder
JwtGenerate(claims) ==
    LET token == generateToken(claims, now) IN
    /\ req' = [IdleRequest EXCEPT !.op = "generateToken", !.body = claims,
                                  !.jar = Some(token)]
    /\ cookie' = Some(token)
    /\ resp' = Idle
    /\ UNCHANGED <<store, inflight, now>>

\* the holder alters the token as issued
JwtTamper(kind) ==
    /\ Present(cookie)
    /\ cookie = req.jar
    /\ cookie' = Some(Tampered(kind, Get(cookie)))
    /\ cookie' # cookie
    /\ resp' = Idle
    /\ UNCHANGED <<store, inflight, now, req>>

\* jwtUtils.verifyToken(token)
JwtVerify ==
    /\ Present(cookie)
    /\ resp' = [Idle EXCEPT !.op = "verifyToken", !.user = verifyToken(Get(cookie), now)]
    /\ UNCHANGED <<store, inflight, now, req, cookie>>

\* a day passes
JwtTick ==
    /\ now < MaxNow
    /\ now' = now + 1
    /\ resp' = Idle
    /\ UNCHANGED <<store, inflight, req, cookie>>

NextJwt ==
    \/ \E claims \in ClaimsInputs : JwtGenerate(claims)
    \/ \E kind \in AllTamperKinds : JwtTamper(kind)
    \/ JwtVerify
    \/ JwtTick

SpecJwt == InitJwt /\ [][NextJwt]_vars

\* C9: verifyToken of the token generateToken issued for a claims object, while
\* the token is in its validity, returns a payload with the claims' userId (or
\* their id when they carry no userId), email, role and supportMode; verifyToken
\* of a token that differs from the issued one in payload or signature returns
\* null.
TokenRoundTrip ==
    resp.op = "verifyToken" =>
        LET claims == req.body
            issued == Get(req.jar)
        IN IF cookie # req.jar THEN resp.user = None
           ELSE now < issued.payload.exp =>
                   /\ Present(resp.user)
                   /\ Get(resp.user).userId =
                          (IF claims.userId # 0 THEN claims.userId ELSE claims.id)
                   /\ Get(resp.user).email = claims.email
                   /\ Get(resp.user).role = claims.role
                   /\ Get(resp.user).supportMode = claims.supportMode

\* a token issued with supportMode came back from verifyToken with it
RoundTripSeen ==
    /\ resp.op = "verifyToken"
    /\ cookie = req.jar
    /\ Present(resp.user)
    /\ Present(req.body.supportMode)
    /\ Get(resp.user).supportMode = req.body.supportMode

----------------------------------------------------------------------------
(* Anonymous requests (checked under SpecSession) *)

GuardedOps ==
    ReadOps \cup CreateOps \cup
    {"authUser", "me", "getCompanies", "postAsset", "putAsset", "deleteAsset",
     "adminCompanies", "supportAccess", "exitSupport"}

\* the cookie jar holds a token the server signed that has not expired
HoldsValidToken(jar, t) ==
    /\ Present(jar)
    /\ Get(jar).sig = HS256(Get(jar).payload, jwtSecret)
    /\ t < Get(jar).payload.exp

\* C10: a request to a route behind isAuthenticated that carries no token, a
\* token whose payload or signature was rewritten, or an expired token gets no
\* identity attached and is answered 401 Unauthorized, and nothing of the store
\* or of the cookie changes.
AnonymousIsUnauthorized ==
    [][(req'.op \in GuardedOps /\ ~HoldsValidToken(cookie, now))
       => /\ req'.user = None
          /\ resp' = Unauthorized(req'.op)
          /\ UNCHANGED <<store, cookie>>]_vars

\* a write carrying a token whose role was rewritten to super_admin was
\* answered 401
RewrittenTokenRefused ==
    /\ req.op \in {"postAsset", "supportAccess"}
    /\ Present(req.jar)
    /\ Get(req.jar).payload.role = "super_admin"
    /\ Get(req.jar).sig # HS256(Get(req.jar).payload, jwtSecret)
    /\ resp.status = 401

----------------------------------------------------------------------------
(* The admin routes and POST /api/companies, while the stored role of the    *)
(* super_admin may change under a token already issued (SpecAdmin)          *)

AdminLoginBodies ==
    {[email |-> Some(e), password |-> Some(PwGood)] : e \in {EmailRoot, EmailA}}

AdminCompanyInputs == {2}

AdminOps == {"adminCompanies", "adminPlan", "adminStatus", "supportAccess",
             "exitSupport", "supportStatus"}

NextAdmin ==
    \/ \E body \in AdminLoginBodies : Login(body)
    \/ AdminCompanies
    \/ \E c \in AdminCompanyInputs, body \in PlanBodies : AdminPlan(c, body)
    \/ \E c \in AdminCompanyInputs, body \in StatusBodies : AdminStatus(c, body)
    \/ \E c \in AdminCompanyInputs : SupportAccess(c)
    \/ ExitSupport
    \/ SupportStatus
    \/ \E body \in CompanyBodies : PostCompany(body)
    \/ DemoteUser(1)
    \/ RemoveUser(1)

SpecAdmin == InitTenant /\ [][NextAdmin]_vars

\* the stored row of the user is missing or has another role than super_admin
StoredRoleNotSuperAdmin(userId) ==
    ~\E u \in users : u.id = userId /\ u.role = "super_admin"

\* C11: an /api/admin/* request by an authenticated caller whose stored role is
\* not super_admin, or whose row is gone, is answered 403 whatever role the
\* token carries, returns no data, and leaves the store and the cookie as they
\* were.
AdminChecksStoredRole ==
    [][(/\ req'.op \in AdminOps
        /\ Present(req'.user)
        /\ StoredRoleNotSuperAdmin(Get(req'.user).userId))
       => /\ resp' = AccessDenied(req'.op)
          /\ UNCHANGED <<store, cookie>>]_vars

\* an admin request carrying a valid token with role super_admin was answered
\* 403 because the stored role is no longer super_admin
StaleAdminTokenRefused ==
    /\ req.op \in {"adminPlan", "supportAccess"}
    /\ Present(req.user)
    /\ Get(req.user).role = "super_admin"
    /\ StoredRoleNotSuperAdmin(Get(req.user).userId)
    /\ resp.status = 403

----------------------------------------------------------------------------
(* The asset routes and their audit rows, the audit write failing or not     *)
(* (SpecAudit)                                                              *)

NextAudit ==
    \/ \E body \in SessionLoginBodies : Login(body)
    \/ \E body \in AssetBodies : PostAsset(body)
    \/ \E id \in AssetIdInputs, body \in PutBodies : PutAsset(id, body)
    \/ \E id \in AssetIdInputs, c \in CompanyIdInputs : DeleteAsset(id, c)
    \/ \E body \in AssetBodies : PostAssetLogFails(body)
    \/ \E id \in AssetIdInputs, body \in PutBodies : PutAssetLogFails(id, body)
    \/ \E id \in AssetIdInputs, c \in CompanyIdInputs : DeleteAssetLogFails(id, c)
    \/ \E op \in {"dashboardActivity"}, c \in CompanyIdInputs : TenantRead(op, c)

SpecAudit == InitTenant /\ [][NextAudit]_vars

\* C12: a POST /api/assets answered with the created asset appends exactly one
\* row to the activity log, with action "created", entityType "asset", the new
\* asset's id and the asset's companyId; a POST /api/assets answered otherwise
\* appends none.
AssetCreationLoggedOnce ==
    [][req'.op = "postAsset" =>
         IF resp'.status = 200
         THEN \E a \in resp'.rows :
                 /\ a \in assets' \ assets
                 /\ Len(activityLog') = Len(activityLog) + 1
                 /\ SubSeq(activityLog', 1, Len(activityLog)) = activityLog
                 /\ LET row == activityLog'[Len(activityLog')]
                    IN /\ row.action = "created"
                       /\ row.entityType = "asset"
                       /\ row.entityId = a.id
                       /\ row.companyId = a.companyId
         ELSE activityLog' = activityLog]_vars

\* an asset was created and answered, and its audit row is the last of the log
AssetCreationLogged ==
    /\ req.op = "postAsset"
    /\ resp.status = 200
    /\ Len(activityLog) > 0
    /\ activityLog[Len(activityLog)].action = "created"
    /\ \E a \in assets : activityLog[Len(activityLog)].entityId = a.id

\* C14: when the audit write fails after the asset was created, updated or
\* deleted (the handler answers from its catch block), the asset stays as the
\* mutation left it and the log holds no new row.
MutationSurvivesLogFailure ==
    [][/\ (req'.op = "postAsset" /\ resp'.status = 500)
          => /\ \E a \in assets' \ assets :
                    /\ a.id = nextAssetId
                    /\ a.companyId = FirstCompanyId(Get(req'.user).userId)
             /\ activityLog' = activityLog
       /\ (req'.op = "deleteAsset" /\ resp'.status = 500)
          => /\ getAssetById(req'.id, req'.companyId) # {}
             /\ assets' = assets \ getAssetById(req'.id, req'.companyId)
             /\ activityLog' = activityLog
       /\ (/\ req'.op = "putAsset" /\ resp'.status = 400 /\ Present(req'.user)
           /\ insertAssetSchemaOk(req'.body, TRUE)
           /\ \E a \in assets : a.id = req'.id)
          => /\ \E a \in assets : a.id = req'.id /\ UpdatedAsset(a, req'.body) \in assets'
             /\ activityLog' = activityLog]_vars

\* an asset created while the audit write failed is in the store, unlogged
UnloggedAssetStored ==
    /\ req.op = "postAsset"
    /\ resp.status = 500
    /\ assets # {}
    /\ activityLog = <<>>

----------------------------------------------------------------------------
(* Audit of every mutation (checked under SpecAdmin) *)

MutatingOps ==
    CreateOps \cup {"postCompany", "postAsset", "putAsset", "deleteAsset",
                    "adminPlan", "adminStatus"}

\* C13: a request to a handler that creates, updates or deletes a company, an
\* asset, a contract, a license or a maintenance record appends exactly one row
\* to the activity log when it changed such a row, and none when it did not.
EveryMutationLoggedOnce ==
    [][req'.op \in MutatingOps =>
         IF <<companies, assets, contracts, licenses, maintenance>>'
              # <<companies, assets, contracts, licenses, maintenance>>
         THEN /\ Len(activityLog') = Len(activityLog) + 1
              /\ SubSeq(activityLog', 1, Len(activityLog)) = activityLog
         ELSE activityLog' = activityLog]_vars

\* the identity claims of a token
Identity(token) ==
    <<token.payload.userId, token.payload.email, token.payload.role>>

\* C15: a successful support-access for company C replaces the cookie by a
\* valid token whose supportMode names C and the caller as adminId; a
\* successful exit-support sent with a supportMode token replaces it by a valid
\* token without supportMode; userId, email and role are those of the old token.
SupportModeRewritesClaims ==
    [][/\ (req'.op = "supportAccess" /\ resp'.status = 200) =>
            /\ Present(cookie) /\ Present(cookie')
            /\ jwtVerifyOk(Get(cookie'), now')
            /\ Present(Get(cookie').payload.supportMode)
            /\ Get(Get(cookie').payload.supportMode).companyId = req'.companyId
            /\ Get(Get(cookie').payload.supportMode).adminId
                 = Get(cookie).payload.userId
            /\ Identity(Get(cookie')) = Identity(Get(cookie))
       /\ (/\ req'.op = "exitSupport" /\ resp'.status = 200
           /\ Present(cookie) /\ Present(Get(cookie).payload.supportMode)) =>
            /\ Present(cookie')
            /\ jwtVerifyOk(Get(cookie'), now')
            /\ ~Present(Get(cookie').payload.supportMode)
            /\ Identity(Get(cookie')) = Identity(Get(cookie))]_vars

\* support mode was entered and then left: both log rows are there and the
\* exit-support answer carries the reissued token
SupportModeEnteredAndLeft ==
    /\ req.op = "exitSupport" /\ resp.status = 200
    /\ Present(resp.setCookie)
    /\ Len(activityLog) = 2
    /\ activityLog[1].action = "accessed"
    /\ activityLog[2].action = "exited"

----------------------------------------------------------------------------
(* Support mode as the effective tenant (checked under SpecTenant) *)

\* C16: POST /api/assets with a valid body by a caller whose token carries
\* supportMode for company C answers 200 and leaves an asset and, as the last
\* row of the activity log, its audit row, both under C.
SupportModeScopesAssetCreation ==
    (/\ req.op = "postAsset"
     /\ Present(req.user)
     /\ Present(Get(req.user).supportMode)
     /\ insertAssetSchemaOk(req.body, TRUE)
     /\ Present(req.body.name))
    => LET C == Get(Get(req.user).supportMode).companyId
       IN /\ resp.status = 200
          /\ \E a \in assets : a.companyId = C /\ a.name = Get(req.body.name)
          /\ Len(activityLog) > 0
          /\ activityLog[Len(activityLog)].companyId = C
          /\ activityLog[Len(activityLog)].action = "created"

----------------------------------------------------------------------------
(* Expiration alerts of the applications and physical-assets pages          *)
(* (SpecExpiry).  An instant is a day and a millisecond within the day, so  *)
(* that 30 * 24 * 60 * 60 * 1000 ms is 30 on the day component.  assets     *)
(* holds the row under render, now the browser's clock, req the clock reads *)
(* of the render, resp what the render computed.                            *)

At(day, ms) == [day |-> day, ms |-> ms]

\* a < b and a <= b on instants
Before(a, b) == a.day < b.day \/ (a.day = b.day /\ a.ms < b.ms)
AtOrBefore(a, b) == a = b \/ Before(a, b)

\* new Date(Date.now() + 30 * 24 * 60 * 60 * 1000), Date.now() being t
thirtyDaysFrom(t) == At(t.day + 30, t.ms)

\* the four services of getExpiryWarning's expiries array, in its order
expiriesOf(app) ==
    SelectSeq(<<[name |-> "Dominio", date |-> app.domainExpiry],
                [name |-> "SSL", date |-> app.sslExpiry],
                [name |-> "Hosting", date |-> app.hostingExpiry],
                [name |-> "Servidor", date |-> app.serverExpiry]>>,
              LAMBDA item : Truthy(item.date))

expiredOf(app, t) ==
    SelectSeq(expiriesOf(app), LAMBDA item : Before(Get(item.date), t))

expiringSoonOf(app, t, thirtyDaysFromNow) ==
    SelectSeq(expiriesOf(app),
              LAMBDA item : /\ ~Before(Get(item.date), t)
                            /\ AtOrBefore(Get(item.date), thirtyDaysFromNow))

\* getExpiryWarning(app), its two clock reads being t and thirtyDaysFromNow - 30d
getExpiryWarning(app, t, thirtyDaysFromNow) ==
    LET expired == expiredOf(app, t)
        expiringSoon == expiringSoonOf(app, t, thirtyDaysFromNow)
    IN IF Len(expired) > 0
       THEN Some([type |-> "expired", count |-> Len(expired), items |-> expired])
       ELSE IF Len(expiringSoon) > 0
       THEN Some([type |-> "expiring", count |-> Len(expiringSoon), items |-> expiringSoon])
       ELSE None

\* the class of the "Garantia" date of a physical asset's card; nothing is
\* rendered without a warrantyExpiry
warrantyClass(asset, t, thirtyDaysFromNow) ==
    IF ~Truthy(asset.warrantyExpiry) THEN None
    ELSE IF Before(Get(asset.warrantyExpiry), t) THEN Some("text-destructive")
    ELSE IF Before(Get(asset.warrantyExpiry), thirtyDaysFromNow) THEN Some("text-chart-4")
    ELSE Some("text-foreground")

\* the class of a service's date under its cost on the application card (the
\* rows under render carry a cost for every service); no date, no element
serviceDateClass(date, t, thirtyDaysFromNow) ==
    IF ~Truthy(date) THEN None
    ELSE IF Before(Get(date), t) THEN Some("text-destructive")
    ELSE IF Before(Get(date), thirtyDaysFromNow) THEN Some("text-chart-4")
    ELSE Some("text-muted-foreground")

\* the dates rows carry: 1 ms before, at, 29 days, 30 days, 30 days and 1 ms,
\* and 31 days after the first instant of the clock
DateInputs ==
    {None} \cup {Some(At(1, 0)), Some(At(1, 1)), Some(At(30, 1)), Some(At(31, 1)),
                 Some(At(31, 2)), Some(At(32, 1))}

AssetRow(type, warranty, domain, ssl, hosting, server) ==
    [type |-> type, warrantyExpiry |-> warranty, domainExpiry |-> domain,
     sslExpiry |-> ssl, hostingExpiry |-> hosting, serverExpiry |-> server]

ExpiryRows ==
    {AssetRow("physical", w, None, None, None, None) : w \in DateInputs}
    \cup {AssetRow("application", w, d, s, h, v) :
            w \in {None, Some(At(1, 0))}, d \in DateInputs, s \in DateInputs,
            h \in {None, Some(At(1, 0))}, v \in {None, Some(At(30, 1))}}

InitExpiry ==
    /\ users = {} /\ companies = {} /\ userCompanies = {}
    /\ assets = {} /\ contracts = {} /\ licenses = {} /\ maintenance = {}
    /\ activityLog = <<>> /\ nextAssetId = 1
    /\ inflight = EmptyBag /\ cookie = None
    /\ now = At(1, 1)
    /\ req = IdleRequest /\ resp = Idle

\* the page's query delivers a row
LoadAsset(row) ==
    /\ assets' = {row}
    /\ req' = IdleRequest /\ resp' = Idle
    /\ UNCHANGED <<users, companies, userCompanies, contracts, licenses,
                   maintenance, activityLog, nextAssetId, inflight, cookie, now>>

\* the clock advances by 1 ms
ClockTick ==
    /\ now.ms < MaxNow
    /\ now' = At(now.day, now.ms + 1)
    /\ req' = IdleRequest /\ resp' = Idle
    /\ UNCHANGED <<store, inflight, cookie>>

\* an application card is rendered: new Date() reads the clock, Date.now()
\* reads it again, skew ms later
RenderApplication(skew) ==
    /\ now.ms + skew <= MaxNow
    /\ \E app \in assets :
         /\ app.type = "application"
         /\ LET later == At(now.day, now.ms + skew)
            IN /\ req' = [op |-> "getExpiryWarning", now |-> now,
                          thirtyDaysFromNow |-> thirtyDaysFrom(later)]
               /\ resp' = [op |-> "getExpiryWarning",
                           expired |-> expiredOf(app, now),
                           expiringSoon |-> expiringSoonOf(app, now, thirtyDaysFrom(later)),
                           warning |-> getExpiryWarning(app, now, thirtyDaysFrom(later)),
                           classes |->
                             [Dominio |-> serviceDateClass(app.domainExpiry, now,
                                                           thirtyDaysFrom(later)),
                              SSL |-> serviceDateClass(app.sslExpiry, now,
                                                       thirtyDaysFrom(later)),
                              Hosting |-> serviceDateClass(app.hostingExpiry, now,
                                                           thirtyDaysFrom(later)),
                              Servidor |-> serviceDateClass(app.serverExpiry, now,
                                                            thirtyDaysFrom(later))]]
               /\ now' = later
    /\ UNCHANGED <<store, inflight, cookie>>

\* a physical asset's card is rendered, with the same two clock reads
RenderWarranty(skew) ==
    /\ now.ms + skew <= MaxNow
    /\ \E asset \in assets :
         /\ asset.type = "physical"
         /\ LET later == At(now.day, now.ms + skew)
            IN /\ req' = [op |-> "warranty", now |-> now,
                          thirtyDaysFromNow |-> thirtyDaysFrom(later)]
               /\ resp' = [op |-> "warranty",
                           className |-> warrantyClass(asset, now, thirtyDaysFrom(later))]
               /\ now' = later
    /\ UNCHANGED <<store, inflight, cookie>>

NextExpiry ==
    \/ \E row \in ExpiryRows : LoadAsset(row)
    \/ ClockTick
    \/ \E skew \in {0, 1} : RenderApplication(skew)
    \/ \E skew \in {0, 1} : RenderWarranty(skew)

SpecExpiry == InitExpiry /\ [][NextExpiry]_vars

\* expirationStatus of the design document, for one date and a reference time
expirationStatus(date, t) ==
    IF ~Present(date) THEN "none"
    ELSE IF Before(Get(date), t) THEN "expired"
    ELSE IF AtOrBefore(Get(date), thirtyDaysFrom(t)) THEN "expiringSoon"
    ELSE "none"

\* the status a render gave a service: the list getExpiryWarning put it in
RenderedStatus(name) ==
    IF \E i \in 1..Len(resp.expired) : resp.expired[i].name = name THEN "expired"
    ELSE IF \E i \in 1..Len(resp.expiringSoon) : resp.expiringSoon[i].name = name
    THEN "expiringSoon"
    ELSE "none"

\* the status a class of the warranty date shows
ShownStatus(className) ==
    IF className = Some("text-destructive") THEN "expired"
    ELSE IF className = Some("text-chart-4") THEN "expiringSoon"
    ELSE "none"

\* both clock reads of the render gave the same instant
FixedReferenceTime == req.thirtyDaysFromNow = thirtyDaysFrom(req.now)

\* C17: at a fixed reference time t every tracked date d is given the status
\* expired when d < t, expiringSoon when t <= d <= t + 30 days, none otherwise
\* or when absent: the four services by getExpiryWarning, the warranty by the
\* physical asset's card.
ExpirationStatusPerField ==
    /\ (req.op = "getExpiryWarning" /\ FixedReferenceTime) =>
          \A app \in assets :
             /\ RenderedStatus("Dominio") = expirationStatus(app.domainExpiry, req.now)
             /\ RenderedStatus("SSL") = expirationStatus(app.sslExpiry, req.now)
             /\ RenderedStatus("Hosting") = expirationStatus(app.hostingExpiry, req.now)
             /\ RenderedStatus("Servidor") = expirationStatus(app.serverExpiry, req.now)
    /\ (req.op = "warranty" /\ FixedReferenceTime) =>
          \A asset \in assets :
             ShownStatus(resp.className) = expirationStatus(asset.warrantyExpiry, req.now)

TrackedFields ==
    {"warrantyExpiry", "domainExpiry", "sslExpiry", "hostingExpiry", "serverExpiry"}

\* the number of tracked dates of the row in the class
CountIn(row, class, t) ==
    Cardinality({f \in TrackedFields : expirationStatus(row[f], t) = class})

\* C18: at a fixed reference time the warning of an asset is expired, with the
\* number of expired tracked dates, when one is expired; otherwise expiring,
\* with the number of tracked dates in the 30-day window, when one is in it;
\* otherwise there is none.
AggregateOverTrackedFields ==
    (req.op = "getExpiryWarning" /\ FixedReferenceTime) =>
       \A app \in assets :
          IF CountIn(app, "expired", req.now) > 0
          THEN /\ Present(resp.warning)
               /\ Get(resp.warning).type = "expired"
               /\ Get(resp.warning).count = CountIn(app, "expired", req.now)
          ELSE IF CountIn(app, "expiringSoon", req.now) > 0
          THEN /\ Present(resp.warning)
               /\ Get(resp.warning).type = "expiring"
               /\ Get(resp.warning).count = CountIn(app, "expiringSoon", req.now)
          ELSE ~Present(resp.warning)

----------------------------------------------------------------------------
(* Monthly costs (SpecCosts): the store of SpecTenant, whose asset rows here *)
(* carry the five monthly cost columns                                      *)

\* Number(x || 0): a missing, null or zero cost counts as 0
NumberOrZero(cost) == IF Present(cost) THEN Get(cost) ELSE 0

\* a total that leaves the infrastructure costs out
AppMonthlyCostOnly(app) == NumberOrZero(app.monthlyCost)

\* the "Total:" of an application card
AppMonthlyTotal(app) ==
    NumberOrZero(app.monthlyCost) + NumberOrZero(app.domainCost)
    + NumberOrZero(app.sslCost) + NumberOrZero(app.hostingCost)
    + NumberOrZero(app.serverCost)

RECURSIVE SumOfTotals(_)
SumOfTotals(rows) ==
    IF rows = {} THEN 0
    ELSE LET a == CHOOSE x \in rows : TRUE
         IN AppMonthlyTotal(a) + SumOfTotals(rows \ {a})

\* storage.getCompanyCostSummary(companyId), its monthlyTotal
getCompanyCostSummary(companyId) ==
    [monthlyTotal |-> SumOfTotals(getAssetsByCompany(companyId))]

Costs(monthly, domain, ssl, hosting, server) ==
    [monthlyCost |-> monthly, domainCost |-> domain, sslCost |-> ssl,
     hostingCost |-> hosting, serverCost |-> server]

CostInputs ==
    {Costs(Some(10), None, None, None, None),
     Costs(Some(20), Some(5), None, None, None),
     Costs(None, None, Some(1), Some(2), Some(4)),
     Costs(None, None, None, None, None)}

\* the store gets an asset row with these costs
StoreCostRow(companyId, costs) ==
    /\ nextAssetId <= MaxCostRows
    /\ assets' = assets \cup {[id |-> nextAssetId, companyId |-> companyId] @@ costs}
    /\ nextAssetId' = nextAssetId + 1
    /\ req' = IdleRequest /\ resp' = Idle
    /\ UNCHANGED <<users, companies, userCompanies, contracts, licenses,
                   maintenance, activityLog, inflight, cookie, now>>

\* GET /api/dashboard/:companyId/summary, the costs of its answer
DashboardCosts(companyId) ==
    /\ req' = Request("dashboardCosts", companyId, 0, NoBody)
    /\ resp' = IF isAuthenticated(cookie, now)
               THEN [Response("dashboardCosts", 200, "")
                       EXCEPT !.rows = {getCompanyCostSummary(companyId)}]
               ELSE Unauthorized("dashboardCosts")
    /\ UNCHANGED <<store, inflight, cookie, now>>

NextCosts ==
    \/ \E body \in SessionLoginBodies : Login(body)
    \/ \E c \in CompanyIdInputs, costs \in CostInputs : StoreCostRow(c, costs)
    \/ \E c \in CompanyIdInputs : DashboardCosts(c)

SpecCosts == InitTenant /\ [][NextCosts]_vars

\* the sum of one cost column over the rows, absent costs as 0
RECURSIVE ColumnTotal(_, _)
ColumnTotal(rows, column) ==
    IF rows = {} THEN 0
    ELSE LET a == CHOOSE x \in rows : TRUE
         IN (IF a[column] = None THEN 0 ELSE a[column][1])
            + ColumnTotal(rows \ {a}, column)

\* the cost columns of the company's rows, each as often as it occurs
CostsOf(companyId) ==
    LET rows == {a \in assets : a.companyId = companyId}
    IN [c \in CostInputs |->
          Cardinality({a \in rows : \A f \in DOMAIN c : a[f] = c[f]})]

\* the company's assets are [{monthlyCost: 10}, {monthlyCost: 20, domainCost: 5}]
ExampleAssets(companyId) ==
    CostsOf(companyId) =
       [c \in CostInputs |->
          IF c \in {Costs(Some(10), None, None, None, None),
                    Costs(Some(20), Some(5), None, None, None)} THEN 1 ELSE 0]

----------------------------------------------------------------------------
(* What the answers tell about a user (SpecProfile): registration, login,   *)
(* the profile and support mode, from a fresh installation                  *)

ProfileRegisterBodies ==
    {RegBody(EmailA, "pyme", Some(RucA), None),
     RegBody(EmailB, "professional", None, Some(CedK)),
     RegBody(EmailBad, "pyme", Some(RucA), None)}

NextProfile ==
    \/ \E body \in ProfileRegisterBodies : RegisterReceive(body)
    \/ \E d \in BagToSet(inflight) : RegisterComplete(d)
    \/ \E body \in AdminLoginBodies : Login(body)
    \/ AuthUser
    \/ \E c \in CompanyIdInputs : SupportAccess(c)
    \/ ExitSupport

SpecProfile == Init /\ [][NextProfile]_vars

ProfileOps == {"register", "login", "authUser", "supportAccess", "exitSupport"}

\* the fields of a user an answer or a token may carry
PublicUserFields ==
    {"id", "userId", "email", "firstName", "lastName", "role", "supportMode",
     "iat", "exp"}

\* C20: no answer of register, login, GET /api/auth/user, support-access or
\* exit-support carries a passwordHash: not in its user, not in its company,
\* not in the claims of the token it sets.
NoPasswordHashInAnswers ==
    resp.op \in ProfileOps =>
       /\ Present(resp.user) =>
             /\ "passwordHash" \notin DOMAIN Get(resp.user)
             /\ DOMAIN Get(resp.user) \subseteq PublicUserFields
       /\ Present(resp.company) => "passwordHash" \notin DOMAIN Get(resp.company)
       /\ Present(resp.setCookie) =>
             "passwordHash" \notin DOMAIN Get(resp.setCookie).payload

\* the profile of a registered user, whose row holds a digest, was answered
ProfileAnswered ==
    /\ resp.op = "authUser" /\ resp.status = 200
    /\ Present(resp.user)
    /\ \E u \in users : /\ u.id = Get(resp.user).id
                        /\ u.role = "manager_owner"
                        /\ u.passwordHash = hash(PwGood)

----------------------------------------------------------------------------
(* passwordUtils on its own (SpecHasher): users holds one credential, the   *)
(* plaintext it was hashed from next to its digest; req and resp are the    *)
(* last call of hash or verify and what it returned                         *)

RECURSIVE StringsUpTo(_)
StringsUpTo(n) ==
    IF n = 0 THEN {<<>>}
    ELSE LET shorter == StringsUpTo(n - 1)
         IN shorter \cup {Append(w, c) : w \in shorter, c \in {"a", "b"}}

PasswordInputs == StringsUpTo(MaxPwLen)

\* a credential is stored: passwordUtils.hash(password) at registration
StoreCredential(password) ==
    /\ users' = {[password |-> password, passwordHash |-> hash(password)]}
    /\ req' = IdleRequest /\ resp' = Idle
    /\ UNCHANGED <<companies, userCompanies, assets, contracts, licenses,
                   maintenance, activityLog, nextAssetId, inflight, cookie, now>>

\* passwordUtils.hash(password), called again
HashCall(password) ==
    /\ req' = [op |-> "hash", password |-> password]
    /\ resp' = [op |-> "hash", digest |-> hash(password)]
    /\ UNCHANGED <<store, inflight, cookie, now>>

\* passwordUtils.verify(password, user.passwordHash) at login
VerifyCall(password) ==
    /\ \E u \in users :
         /\ req' = [op |-> "verify", password |-> password, hash |-> u.passwordHash]
         /\ resp' = [op |-> "verify", ok |-> verify(password, u.passwordHash)]
    /\ UNCHANGED <<store, inflight, cookie, now>>

InitHasher ==
    /\ users = {} /\ companies = {} /\ userCompanies = {}
    /\ assets = {} /\ contracts = {} /\ licenses = {} /\ maintenance = {}
    /\ activityLog = <<>> /\ nextAssetId = 1
    /\ inflight = EmptyBag /\ cookie = None /\ now = 0
    /\ req = IdleRequest /\ resp = Idle

NextHasher ==
    \/ \E password \in PasswordInputs : StoreCredential(password)
    \/ \E password \in PasswordInputs : HashCall(password)
    \/ \E password \in PasswordInputs : VerifyCall(password)

SpecHasher == InitHasher /\ [][NextHasher]_vars

\* q is p with one character replaced, removed or added
OneCharApart(q, p) ==
    \/ /\ Len(q) = Len(p)
       /\ Cardinality({i \in 1..Len(p) : q[i] # p[i]}) = 1
    \/ \E i \in 1..Len(p) : q = SubSeq(p, 1, i - 1) \o SubSeq(p, i + 1, Len(p))
    \/ \E i \in 1..Len(q) : p = SubSeq(q, 1, i - 1) \o SubSeq(q, i + 1, Len(q))

----------------------------------------------------------------------------
(* Logout and a token replayed after it (SpecLogout): the routes of         *)
(* SpecSession for one user who keeps a copy of the token; days pass        *)
(* between the logout and the next request                                  *)

\* after a logout, all but the last day of a token's lifetime pass
WaitAfterLogout ==
    /\ req.op = "logout"
    /\ now + TOKEN_DAYS - 1 <= MaxNow
    /\ now' = now + TOKEN_DAYS - 1
    /\ resp' = Idle
    /\ UNCHANGED <<store, inflight, req, cookie>>

NextLogout ==
    \/ \E body \in SessionLoginBodies : Login(body)
    \/ Logout
    \/ ReplayCookie
    \/ \E op \in ReadOps, c \in CompanyIdInputs : TenantRead(op, c)
    \/ AuthUser
    \/ Me
    \/ GetCompanies
    \/ \E body \in AssetBodies : PostAsset(body)
    \/ \E id \in AssetIdInputs, body \in PutBodies : PutAsset(id, body)
    \/ \E id \in AssetIdInputs, c \in CompanyIdInputs : DeleteAsset(id, c)
    \/ \E op \in CreateOps, body \in RecordBodies : PostRecord(op, body)
    \/ AdminCompanies
    \/ \E c \in CompanyIdInputs : SupportAccess(c)
    \/ ExitSupport
    \/ WaitAfterLogout

SpecLogout == InitTenant /\ [][NextLogout]_vars

\* the cookie is the token the last request, a logout, came with
ReplayedAfterLogout ==
    req.op = "logout" /\ Present(req.jar) /\ cookie = req.jar

\* C22: POST /api/logout answers 200 with or without a token, clears the
\* cookie and changes nothing in the store; a request to a protected route
\* that carries the token held before the logout, before the token's exp,
\* gets the token's claims as its identity and is not answered 401.
LogoutRevokesNothing ==
    [][/\ resp'.op = "logout" =>
            /\ resp'.status = 200
            /\ cookie' = None
            /\ UNCHANGED store
       /\ (/\ ReplayedAfterLogout
           /\ req'.op \in GuardedOps
           /\ jwtVerifyOk(Get(cookie), now)) =>
            /\ req'.user = Some(Get(cookie).payload)
            /\ resp'.status # 401]_vars

\* after a logout the token it came with is back in the cookie and, on the
\* last day before its exp, still passes isAuthenticated
TokenAliveAfterLogout ==
    /\ ReplayedAfterLogout
    /\ now = Get(cookie).payload.iat + TOKEN_DAYS - 1
    /\ isAuthenticated(cookie, now)

----------------------------------------------------------------------------
(* The lifetime of a token (checked under SpecJwt) *)

\* C23: a token is issued with iat the time of issue and exp 7 days later;
\* verifyToken of the token as issued returns its claims at every time before
\* iat + 7 days and null from then on, when the middleware attaches no identity.
TokenLivesSevenDays ==
    [][/\ (cookie' # cookie /\ cookie' = req'.jar /\ req'.op = "generateToken") =>
            /\ Get(cookie').payload.iat = now
            /\ Get(cookie').payload.exp = now + TOKEN_DAYS
       /\ (resp'.op = "verifyToken" /\ cookie' = req'.jar) =>
            LET issued == Get(cookie').payload
            IN IF now' < issued.iat + TOKEN_DAYS
               THEN /\ resp'.user = Some(issued)
                    /\ AttachUser(cookie', now') = Some(issued)
               ELSE /\ resp'.user = None
                    /\ AttachUser(cookie', now') = None]_vars

\* verifyToken returned null for an untouched token exactly 7 days after issue
ExpiredOnSeventhDay ==
    /\ resp.op = "verifyToken"
    /\ cookie = req.jar
    /\ now = Get(cookie).payload.iat + TOKEN_DAYS
    /\ resp.user = None

----------------------------------------------------------------------------
(* The activity log over the admin routes (checked under SpecAdmin) *)

\* C24: no operation updates or deletes a row of the activity log: the log
\* after a step is the log before it, followed by the rows the step wrote.
ActivityLogAppendOnly ==
    [][/\ Len(activityLog') >= Len(activityLog)
       /\ SubSeq(activityLog', 1, Len(activityLog)) = activityLog]_vars

\* the row of a created company is still first in the log after support mode
\* was entered
CompanyRowKeptUnderLaterRow ==
    /\ Len(activityLog) = 2
    /\ activityLog[1].action = "created" /\ activityLog[1].entityType = "company"
    /\ activityLog[2].action = "accessed"

----------------------------------------------------------------------------
(* Costs in asset requests (SpecAssetCosts): POST and PUT /api/assets with  *)
(* bodies that carry a monthlyCost                                          *)

CostValues == {None, Some(0), Some(5), Some(-5)}

CostAssetBodies ==
    {[name |-> Some(NameLaptop), type |-> Some("application"), companyId |-> None,
      monthlyCost |-> cost] : cost \in CostValues}

CostPutBodies ==
    {[name |-> None, type |-> None, companyId |-> None, monthlyCost |-> cost] :
        cost \in CostValues}

NextAssetCosts ==
    \/ \E body \in SessionLoginBodies : Login(body)
    \/ \E body \in CostAssetBodies : PostAsset(body)
    \/ \E id \in AssetIdInputs, body \in CostPutBodies : PutAsset(id, body)
    \/ \E id \in AssetIdInputs, c \in CompanyIdInputs : DeleteAsset(id, c)
    \/ \E c \in CompanyIdInputs : TenantRead("getAssets", c)
    \/ Logout

SpecAssetCosts == InitTenant /\ [][NextAssetCosts]_vars

\* C25: a create or update of an asset whose body carries a negative
\* monthlyCost is answered 400, and no stored asset has a negative monthlyCost.
CostsNonNegative ==
    /\ (/\ req.op \in {"postAsset", "putAsset"}
        /\ isAuthenticated(req.jar, now)
        /\ Present(req.body.monthlyCost)
        /\ Get(req.body.monthlyCost) < 0) => resp.status = 400
    /\ \A a \in assets : "monthlyCost" \in DOMAIN a => a.monthlyCost >= 0

----------------------------------------------------------------------------
(* Creating and deleting assets (SpecAssets): a member, who may found a     *)
(* second company, and the super_admin, who is a member of none             *)

NextAssets ==
    \/ \E body \in AdminLoginBodies : Login(body)
    \/ \E body \in CompanyBodies : PostCompany(body)
    \/ \E body \in AssetBodies : PostAsset(body)
    \/ \E id \in AssetIdInputs, c \in CompanyIdInputs : DeleteAsset(id, c)

SpecAssets == InitTenant /\ [][NextAssets]_vars

\* the caller's memberships, and the company of the earliest of them
MembershipsOf(user) == {m \in userCompanies : m.userId = user.userId}

EarliestCompanyOf(user) ==
    CHOOSE c \in CompanyIds :
        /\ \E m \in MembershipsOf(user) : m.companyId = c
        /\ \A m \in MembershipsOf(user) : c <= m.companyId

\* C26: POST /api/assets by a caller without membership is answered 403 and
\* creates no asset and no log row; answered 200, it has added one asset and
\* one log row, both under the first company of the caller's memberships,
\* whatever companyId the body carries.
AssetCompanyFromMembership ==
    [][(req'.op = "postAsset" /\ Present(req'.user)) =>
         IF MembershipsOf(Get(req'.user)) = {}
         THEN /\ resp'.status = 403
              /\ UNCHANGED <<assets, activityLog>>
         ELSE resp'.status = 200 =>
                \E a \in assets' \ assets :
                   /\ assets' = assets \cup {a}
                   /\ a.companyId = EarliestCompanyOf(Get(req'.user))
                   /\ Len(activityLog') = Len(activityLog) + 1
                   /\ activityLog'[Len(activityLog')].companyId = a.companyId
                   /\ activityLog'[Len(activityLog')].entityId = a.id]_vars

\* a member of company 1 asked for an asset under company 2 and got it under 1
BodyCompanyIgnored ==
    /\ req.op = "postAsset" /\ resp.status = 200
    /\ req.body.companyId = Some(2)
    /\ \A a \in resp.rows : a.companyId = 1 /\ a \in assets
    /\ activityLog[Len(activityLog)].companyId = 1

\* C29: DELETE /api/assets/:id/:companyId for an id the company has no asset
\* with is answered 404 and leaves the assets and the log as they are; when the
\* asset exists and the answer is 200, the asset is gone and the log has one
\* more row, a "deleted" row with the asset's name.
DeleteMissingIs404 ==
    [][(req'.op = "deleteAsset" /\ Present(req'.user)) =>
         LET found == {a \in assets : a.id = req'.id /\ a.companyId = req'.companyId}
         IN IF found = {}
            THEN /\ resp'.status = 404
                 /\ UNCHANGED <<assets, activityLog>>
            ELSE resp'.status = 200 =>
                   /\ assets' = assets \ found
                   /\ Len(activityLog') = Len(activityLog) + 1
                   /\ SubSeq(activityLog', 1, Len(activityLog)) = activityLog
                   /\ activityLog'[Len(activityLog')].action = "deleted"
                   /\ \A a \in found :
                        activityLog'[Len(activityLog')].entityName = a.name]_vars

\* a DELETE naming an existing asset under another company was answered 404
\* and the asset is still there
DeleteUnderOtherCompanyRefused ==
    /\ req.op = "deleteAsset" /\ resp.status = 404
    /\ \E a \in assets : a.id = req.id /\ a.companyId # req.companyId

----------------------------------------------------------------------------
(* The cookie of a failed login or registration (checked under              *)
(* SpecOnboarding)                                                          *)

\* C27: a login or a registration that is not answered 200 sets no cookie and
\* leaves the jwt cookie as it was; one that is answered 200 sets the cookie to
\* the token of its answer.
CookieOnlyOnSuccess ==
    [][resp'.op \in {"login", "register"} =>
         IF resp'.status = 200
         THEN Present(resp'.setCookie) /\ cookie' = resp'.setCookie
         ELSE ~Present(resp'.setCookie) /\ cookie' = cookie]_vars

\* a login was refused while the jar held another user's token, and holds it
\* still
RefusedLoginKeptCookie ==
    /\ resp.op = "login" /\ resp.status = 401
    /\ Present(cookie)
    /\ Get(cookie).payload.email # Get(req.body.email)

----------------------------------------------------------------------------
(* The lifetime of a reissued token: every session starts on day 0, the     *)
(* clock moves a day at a time, and the super admin enters and leaves       *)
(* support mode on any day                                                  *)

LoginOnDayZero(body) ==
    /\ now = 0
    /\ Login(body)

NextReissue ==
    \/ \E body \in AdminLoginBodies : LoginOnDayZero(body)
    \/ JwtTick
    \/ \E c \in AdminCompanyInputs : SupportAccess(c)
    \/ ExitSupport
    \/ AdminCompanies

SpecReissue == InitTenant /\ [][NextReissue]_vars

\* C28: a token that support-access or exit-support issues is valid for
\* TOKEN_DAYS counted from the day of the reissue, whatever the token it
\* replaces had left: its iat is the day of the reissue, its exp is that day
\* plus TOKEN_DAYS, and when the replaced token is older its exp is later than
\* the replaced token's.
ReissueStartsFreshLifetime ==
    [][(resp'.op \in {"supportAccess", "exitSupport"} /\ Present(resp'.setCookie)) =>
         LET new == Get(resp'.setCookie).payload
             old == Get(cookie).payload
         IN /\ new.iat = now
            /\ new.exp = now + TOKEN_DAYS
            /\ cookie' = resp'.setCookie
            /\ old.iat < now => new.exp > old.exp]_vars

\* TOKEN_DAYS after the login of day 0 a guarded route still answers 200 to the
\* session, whose token was reissued on the way
SessionOutlivesLoginToken ==
    /\ now >= TOKEN_DAYS
    /\ resp.op = "adminCompanies" /\ resp.status = 200
    /\ isAuthenticated(cookie, now)
    /\ Get(cookie).payload.iat > 0

----------------------------------------------------------------------------
(* The colour of a service's date against getExpiryWarning (checked under   *)
(* SpecExpiry)                                                              *)

ServiceNames == {"Dominio", "SSL", "Hosting", "Servidor"}

\* C30: at a fixed reference time the card colours a service's date as expired
\* exactly when getExpiryWarning lists the service as expired, and as expiring
\* exactly when getExpiryWarning lists it as expiring soon, a date exactly 30
\* days ahead included.
ColouringAgreesWithWarning ==
    (req.op = "getExpiryWarning" /\ FixedReferenceTime) =>
       \A name \in ServiceNames :
          ShownStatus(resp.classes[name]) = RenderedStatus(name)

====
